---------------------------- MODULE Spec2Model ----------------------------
(***************************************************************************)
(* Scedge Core: the cache request pipeline (store / lookup / purge) over   *)
(* the Redis backend, the tenant policy engine and the invalidation event  *)
(* handlers, modelled from src/src/{api,cache,model,policy,events}.rs.     *)
(*                                                                         *)
(* Strings are sequences of one-character strings, Option<T> is a sequence *)
(* of length 0 (None) or 1 (Some), time is counted in ticks of             *)
(* 1/TicksPerSec second.                                                   *)
(***************************************************************************)
EXTENDS Integers, Sequences, FiniteSets, TLC

VARIABLES
    redis,      \* the Redis keyspace: physical key -> [json, deadline]
    now,        \* the wall clock (Utc::now), in ticks
    metrics,    \* the IntCounters of Metrics
    tenants,    \* PolicyEngine.tenants: tenant_id -> TenantConfig
    default_ttl_seconds,  \* AppState.default_ttl_seconds
    upstream,   \* AppState.upstream is Some
    listener,   \* the task running EventBus::listen_loop and its channels
    requests,   \* the lookups in flight, each at one of its await points
    last,       \* the request served last, what it found and its response
    stored      \* history: per key, the artifact of the store that wrote the
                \* record the key still holds, and the TTL that store used

vars == <<redis, now, metrics, tenants, default_ttl_seconds, upstream, listener,
          requests, last, stored>>

-----------------------------------------------------------------------------
(* Bounds of the model *)

MaxTime == 6
MaxCount == 1
TicksPerSec == 2

-----------------------------------------------------------------------------
(* Option<T> *)

None == <<>>
Some(v) == <<v>>
IsSome(o) == o # <<>>
Unwrap(o) == o[1]
UnwrapOr(o, d) == IF o = <<>> THEN d ELSE o[1]

(* Strings *)

Whitespace == {" "}

\* str::trim().is_empty()
IsBlank(s) == \A i \in DOMAIN s : s[i] \in Whitespace

RECURSIVE SeqToSet(_)
SeqToSet(s) == IF s = <<>> THEN {} ELSE {Head(s)} \cup SeqToSet(Tail(s))

\* str::strip_prefix
HasPrefix(s, p) == Len(s) >= Len(p) /\ SubSeq(s, 1, Len(p)) = p
StripPrefix(s, p) == SubSeq(s, Len(p) + 1, Len(s))

\* chrono::Duration::num_seconds: whole seconds, truncated toward zero
NumSeconds(d) == IF d >= 0 THEN d \div TicksPerSec ELSE -((-d) \div TicksPerSec)

\* chrono::Duration::seconds
Seconds(n) == n * TicksPerSec

-----------------------------------------------------------------------------
(* serde_json values *)

JNull == [t |-> "null"]
JBool(b) == [t |-> "bool", b |-> b]
JNum(n) == [t |-> "num", n |-> n]
JStr(s) == [t |-> "str", s |-> s]
JArr(a) == [t |-> "arr", a |-> a]
JObj(o) == [t |-> "obj", o |-> o]

DigitChars == <<"0", "1", "2", "3", "4", "5", "6", "7", "8", "9">>
DigitVal(c) == CHOOSE i \in 0..9 : DigitChars[i + 1] = c

\* DateTime<Utc> as its serialized text and back
FormatTime(t) == <<"T", DigitChars[(t \div 10) + 1], DigitChars[(t % 10) + 1]>>
ParseTime(s) == DigitVal(s[2]) * 10 + DigitVal(s[3])

OptStrToJson(o) == IF o = None THEN JNull ELSE JStr(Unwrap(o))
JsonToOptStr(j) == IF j.t = "null" THEN None ELSE Some(j.s)
OptNumToJson(o) == IF o = None THEN JNull ELSE JNum(Unwrap(o))
JsonToOptNum(j) == IF j.t = "null" THEN None ELSE Some(j.n)
OptTimeToJson(o) == IF o = None THEN JNull ELSE JStr(FormatTime(Unwrap(o)))
JsonToOptTime(j) == IF j.t = "null" THEN None ELSE Some(ParseTime(j.s))

\* a field marked #[serde(default)] may be missing from the object
Field(o, name, dflt) == IF name \in DOMAIN o THEN o[name] ELSE dflt

PolicyContextToJson(p) ==
    JObj([tenant |-> JStr(p.tenant), phi |-> JBool(p.phi), pii |-> JBool(p.pii),
          region |-> OptStrToJson(p.region),
          compliance_tags |-> JArr([i \in DOMAIN p.compliance_tags |->
                                        JStr(p.compliance_tags[i])])])

PolicyContextFromJson(j) ==
    [tenant |-> j.o.tenant.s,
     phi |-> Field(j.o, "phi", JBool(FALSE)).b,
     pii |-> Field(j.o, "pii", JBool(FALSE)).b,
     region |-> JsonToOptStr(Field(j.o, "region", JNull)),
     compliance_tags |->
        LET a == Field(j.o, "compliance_tags", JArr(<<>>)).a
        IN  [i \in DOMAIN a |-> a[i].s]]

ProvenanceInfoToJson(p) ==
    JObj([source |-> JStr(p.source), hash |-> OptStrToJson(p.hash),
          version |-> OptStrToJson(p.version),
          generated_at |-> OptTimeToJson(p.generated_at)])

ProvenanceInfoFromJson(j) ==
    [source |-> j.o.source.s,
     hash |-> JsonToOptStr(Field(j.o, "hash", JNull)),
     version |-> JsonToOptStr(Field(j.o, "version", JNull)),
     generated_at |-> JsonToOptTime(Field(j.o, "generated_at", JNull))]

\* the serializer losing the artifact's ttl_seconds
ArtifactPayloadToJson_no_ttl(a) ==
    JObj([answer |-> a.answer,
          policy |-> PolicyContextToJson(a.policy),
          provenance |-> JArr([i \in DOMAIN a.provenance |->
                                   ProvenanceInfoToJson(a.provenance[i])]),
          metrics |-> IF a.metrics = None THEN JNull ELSE Unwrap(a.metrics),
          ttl_seconds |-> JNull,
          hash |-> JStr(a.hash),
          metadata |-> IF a.metadata = None THEN JNull ELSE Unwrap(a.metadata)])

ArtifactPayloadToJson(a) ==
    JObj([answer |-> a.answer,
          policy |-> PolicyContextToJson(a.policy),
          provenance |-> JArr([i \in DOMAIN a.provenance |->
                                   ProvenanceInfoToJson(a.provenance[i])]),
          metrics |-> IF a.metrics = None THEN JNull ELSE Unwrap(a.metrics),
          ttl_seconds |-> OptNumToJson(a.ttl_seconds),
          hash |-> JStr(a.hash),
          metadata |-> IF a.metadata = None THEN JNull ELSE Unwrap(a.metadata)])

ArtifactPayloadFromJson(j) ==
    [answer |-> IF "answer" \in DOMAIN j.o THEN j.o.answer ELSE j.o.content,
     policy |-> PolicyContextFromJson(j.o.policy),
     provenance |->
        LET a == Field(j.o, "provenance", JArr(<<>>)).a
        IN  [i \in DOMAIN a |-> ProvenanceInfoFromJson(a[i])],
     metrics |-> LET m == Field(j.o, "metrics", JNull)
                 IN  IF m.t = "null" THEN None ELSE Some(m),
     ttl_seconds |->
        JsonToOptNum(IF "ttl_seconds" \in DOMAIN j.o THEN j.o.ttl_seconds
                     ELSE Field(j.o, "ttl_sec", JNull)),
     hash |-> j.o.hash.s,
     metadata |-> LET m == Field(j.o, "metadata", JNull)
                  IN  IF m.t = "null" THEN None ELSE Some(m)]

\* serde_json::to_string(&CachedArtifact)
CachedArtifactToJson(c) ==
    JObj([key |-> JStr(c.key),
          artifact |-> ArtifactPayloadToJson(c.artifact),
          stored_at |-> JStr(FormatTime(c.stored_at)),
          expires_at |-> OptTimeToJson(c.expires_at)])

\* serde_json::from_str::<CachedArtifact>
CachedArtifactFromJson(j) ==
    [key |-> j.o.key.s,
     artifact |-> ArtifactPayloadFromJson(j.o.artifact),
     stored_at |-> ParseTime(j.o.stored_at.s),
     expires_at |-> JsonToOptTime(j.o.expires_at)]

\* CachedArtifact::ttl_remaining_seconds
ttl_remaining_seconds(c, t) ==
    IF c.expires_at = None THEN None
    ELSE LET remaining == NumSeconds(Unwrap(c.expires_at) - t)
         IN  Some(IF remaining <= 0 THEN 0 ELSE remaining)

-----------------------------------------------------------------------------
(* Results: Result<T, AppError> *)

Ok(v) == [ok |-> TRUE, kind |-> "ok", msg |-> <<>>, value |-> v]
\* AppError::bad_request, AppError::not_found, AppError::Internal
BadRequest(m) == [ok |-> FALSE, kind |-> "bad_request", msg |-> m, value |-> None]
NotFound(m) == [ok |-> FALSE, kind |-> "not_found", msg |-> m, value |-> None]
Internal(m) == [ok |-> FALSE, kind |-> "internal", msg |-> m, value |-> None]

\* IntoResponse for AppError: the HTTP status of a response kind
StatusCode(kind) ==
    CASE kind = "ok" -> 200
      [] kind = "bad_request" -> 400
      [] kind = "not_found" -> 404
      [] kind = "internal" -> 500

-----------------------------------------------------------------------------
(* RedisCache: the Redis backend *)

Prefix == <<"s","c","e","d","g","e",":","a","r","t","i","f","a","c","t",":">>

\* RedisCache::build_redis_key
build_redis_key(key) == Prefix \o key

\* Redis glob matching as used by SCAN ... MATCH, of the pattern p from
\* position i against the string s from position j: `*` any run, `?` any
\* one character, anything else itself
RECURSIVE GlobFrom(_, _, _, _)
GlobFrom(p, i, s, j) ==
    IF i > Len(p) THEN j > Len(s)
    ELSE IF p[i] = "*"
         THEN GlobFrom(p, i + 1, s, j) \/ (j <= Len(s) /\ GlobFrom(p, i, s, j + 1))
    ELSE IF j > Len(s) THEN FALSE
    ELSE IF p[i] = "?" THEN GlobFrom(p, i + 1, s, j + 1)
    ELSE p[i] = s[j] /\ GlobFrom(p, i + 1, s, j + 1)

GlobMatch(p, s) == GlobFrom(p, 1, s, 1)

Remove(r, pk) == [x \in DOMAIN r \ {pk} |-> r[x]]
Put(r, pk, e) == [x \in DOMAIN r \cup {pk} |-> IF x = pk THEN e ELSE r[x]]

\* RedisCache::delete: DEL of one key
cache_delete(r, key) ==
    LET pk == build_redis_key(key)
    IN  [redis |-> Remove(r, pk), deleted |-> pk \in DOMAIN r]

\* RedisCache::delete_many: one DEL of all the keys; Redis counts the keys
\* it removed, a key named twice once
cache_delete_many(r, keys) ==
    IF keys = <<>> THEN [redis |-> r, deleted |-> 0]
    ELSE LET pks == {build_redis_key(keys[i]) : i \in DOMAIN keys}
         IN  [redis |-> [x \in DOMAIN r \ pks |-> r[x]],
              deleted |-> Cardinality(pks \cap DOMAIN r)]

\* RedisCache::get with the expiry test off by one (expires_at < now)
cache_get_late(r, t, key) ==
    LET pk == build_redis_key(key)
    IN  IF pk \notin DOMAIN r THEN [redis |-> r, value |-> None]
        ELSE LET artifact == CachedArtifactFromJson(r[pk].json)
             IN  IF artifact.expires_at # None /\ Unwrap(artifact.expires_at) < t
                 THEN [redis |-> cache_delete(r, key).redis, value |-> None]
                 ELSE [redis |-> r, value |-> Some(artifact)]

\* RedisCache::get at clock reading t
cache_get(r, t, key) ==
    LET pk == build_redis_key(key)
    IN  IF pk \notin DOMAIN r THEN [redis |-> r, value |-> None]
        ELSE LET artifact == CachedArtifactFromJson(r[pk].json)
             IN  IF artifact.expires_at # None /\ Unwrap(artifact.expires_at) <= t
                 THEN [redis |-> cache_delete(r, key).redis, value |-> None]
                 ELSE [redis |-> r, value |-> Some(artifact)]

\* RedisCache::set without the refusal of a record that has already expired
cache_set_unchecked(r, t, key, artifact, expires_at) ==
    LET cached == [key |-> key, artifact |-> artifact, stored_at |-> t,
                   expires_at |-> expires_at]
        json == CachedArtifactToJson(cached)
        pk == build_redis_key(key)
    IN  IF expires_at # None
        THEN LET ttl == NumSeconds(Unwrap(expires_at) - t)
             IN  [redis |-> Put(r, pk, [json |-> json,
                                        deadline |-> Some(t + Seconds(ttl))]),
                  result |-> Ok(cached)]
        ELSE [redis |-> Put(r, pk, [json |-> json, deadline |-> None]),
              result |-> Ok(cached)]

\* set that keeps a record the key already holds (SET ... NX)
cache_set_nx(r, t, key, artifact, expires_at) ==
    LET cached == [key |-> key, artifact |-> artifact, stored_at |-> t,
                   expires_at |-> expires_at]
        json == CachedArtifactToJson(cached)
        pk == build_redis_key(key)
    IN  IF pk \in DOMAIN r THEN [redis |-> r, result |-> Ok(cached)]
        ELSE [redis |-> Put(r, pk, [json |-> json, deadline |-> None]),
              result |-> Ok(cached)]

\* RedisCache::set at clock reading t
cache_set(r, t, key, artifact, expires_at) ==
    LET cached == [key |-> key, artifact |-> artifact, stored_at |-> t,
                   expires_at |-> expires_at]
        json == CachedArtifactToJson(cached)
        pk == build_redis_key(key)
    IN  IF expires_at # None
        THEN LET ttl == NumSeconds(Unwrap(expires_at) - t)
             IN  IF ttl > 0
                 THEN [redis |-> Put(r, pk, [json |-> json,
                                             deadline |-> Some(t + Seconds(ttl))]),
                       result |-> Ok(cached)]
                 ELSE [redis |-> r,
                       result |-> BadRequest(<<"Artifact already expired">>)]
        ELSE [redis |-> Put(r, pk, [json |-> json, deadline |-> None]),
              result |-> Ok(cached)]

\* RedisCache::scan_by_pattern: the logical keys SCAN reports
scan_by_pattern(r, pattern) ==
    LET search_pattern == Prefix \o pattern
    IN  {StripPrefix(pk, Prefix) :
            pk \in {x \in DOMAIN r : GlobMatch(search_pattern, x) /\ HasPrefix(x, Prefix)}}

\* the Vec a scan returns, in the order SCAN happened to report the keys
RECURSIVE SetToSeq(_)
SetToSeq(S) ==
    IF S = {} THEN <<>>
    ELSE LET x == CHOOSE y \in S : TRUE IN <<x>> \o SetToSeq(S \ {x})

-----------------------------------------------------------------------------
(* PolicyEngine *)

\* PolicyEngine::get_tenant
get_tenant(tenant_id) ==
    IF tenant_id \in DOMAIN tenants THEN Some(tenants[tenant_id]) ELSE None

\* PolicyEngine::add_tenant keeping the api key of an entry that exists
add_tenant_keep_key(map, tenant) ==
    [x \in DOMAIN map \cup {tenant.tenant_id} |->
        IF x # tenant.tenant_id THEN map[x]
        ELSE IF x \in DOMAIN map THEN [tenant EXCEPT !.api_key = map[x].api_key]
        ELSE tenant]

\* PolicyEngine::add_tenant: the insert under the write lock
add_tenant(map, tenant) ==
    [x \in DOMAIN map \cup {tenant.tenant_id} |->
        IF x = tenant.tenant_id THEN tenant ELSE map[x]]

\* PolicyEngine::load_tenants: the inserts of the list, in order, under one
\* write lock
RECURSIVE load_tenants(_, _)
load_tenants(map, list) ==
    IF list = <<>> THEN map
    ELSE load_tenants(add_tenant(map, Head(list)), Tail(list))

\* validate_api_key letting any key through for a tenant it does not know
validate_api_key_unknown_ok(tenant_id, api_key) ==
    IF tenant_id \in DOMAIN tenants
    THEN IF tenants[tenant_id].api_key = api_key THEN Ok(None)
         ELSE BadRequest(<<"Invalid API key">>)
    ELSE Ok(None)

\* PolicyEngine::validate_api_key
validate_api_key(tenant_id, api_key) ==
    IF tenant_id \in DOMAIN tenants
    THEN IF tenants[tenant_id].api_key = api_key THEN Ok(None)
         ELSE BadRequest(<<"Invalid API key">>)
    ELSE BadRequest(<<"Unknown tenant">>)

\* validate_ttl with the comparison the wrong way round
validate_ttl_reversed(tenant_id, ttl_seconds) ==
    IF ttl_seconds # None /\ get_tenant(tenant_id) # None
       /\ Unwrap(get_tenant(tenant_id)).max_ttl_seconds # None
       /\ Unwrap(Unwrap(get_tenant(tenant_id)).max_ttl_seconds) > Unwrap(ttl_seconds)
    THEN BadRequest(<<"TTL", Unwrap(ttl_seconds), "exceeds maximum allowed",
                      Unwrap(Unwrap(get_tenant(tenant_id)).max_ttl_seconds),
                      "for tenant", tenant_id>>)
    ELSE Ok(None)

\* PolicyEngine::validate_ttl
validate_ttl(tenant_id, ttl_seconds) ==
    IF ttl_seconds # None /\ get_tenant(tenant_id) # None
       /\ Unwrap(get_tenant(tenant_id)).max_ttl_seconds # None
       /\ Unwrap(ttl_seconds) > Unwrap(Unwrap(get_tenant(tenant_id)).max_ttl_seconds)
    THEN BadRequest(<<"TTL", Unwrap(ttl_seconds), "exceeds maximum allowed",
                      Unwrap(Unwrap(get_tenant(tenant_id)).max_ttl_seconds),
                      "for tenant", tenant_id>>)
    ELSE Ok(None)

\* validate_region treating an empty allowed_regions list as "no region allowed"
validate_region_empty_strict(tenant_id, region) ==
    IF get_tenant(tenant_id) # None
       /\ region # None
       /\ Unwrap(region) \notin SeqToSet(Unwrap(get_tenant(tenant_id)).allowed_regions)
    THEN BadRequest(<<"Region", Unwrap(region), "not allowed for tenant", tenant_id>>)
    ELSE Ok(None)

\* PolicyEngine::validate_region
validate_region(tenant_id, region) ==
    IF get_tenant(tenant_id) # None
       /\ Unwrap(get_tenant(tenant_id)).allowed_regions # <<>>
       /\ region # None
       /\ Unwrap(region) \notin SeqToSet(Unwrap(get_tenant(tenant_id)).allowed_regions)
    THEN BadRequest(<<"Region", Unwrap(region), "not allowed for tenant", tenant_id>>)
    ELSE Ok(None)

\* PolicyEngine::validate_compliance: logs, never rejects
validate_compliance(tenant_id, has_phi, has_pii) == Ok(None)

-----------------------------------------------------------------------------
(* Metrics *)

ZeroMetrics ==
    [cache_hits |-> 0, cache_misses |-> 0, cache_stores |-> 0, cache_purges |-> 0,
     upstream_requests |-> 0, upstream_failures |-> 0]

record_cache_hit(m) == [m EXCEPT !.cache_hits = @ + 1]
record_cache_miss(m) == [m EXCEPT !.cache_misses = @ + 1]
record_cache_store(m) == [m EXCEPT !.cache_stores = @ + 1]
record_cache_purge(m, count) == [m EXCEPT !.cache_purges = @ + count]
record_upstream_request(m) == [m EXCEPT !.upstream_requests = @ + 1]
record_upstream_failure(m) == [m EXCEPT !.upstream_failures = @ + 1]

-----------------------------------------------------------------------------
(* Request pipeline: api.rs.  A handler is an operator from the cache      *)
(* contents r, the clock t and the counters m it starts from to the ones   *)
(* it leaves and its response.                                             *)

Outcome(r, t, m, resp) == [redis |-> r, now |-> t, metrics |-> m, resp |-> resp]

\* the expiry handle_store computes from the clock reading t (api.rs 110-119)
store_expires_at(ttl, t) ==
    LET ttl_seconds == UnwrapOr(ttl, default_ttl_seconds)
    IN  IF ttl_seconds > 0 THEN Some(t + Seconds(ttl_seconds)) ELSE None

\* handle_store running validate_ttl ahead of validate_api_key
handle_store_ttl_first(r, t, m, key, artifact, api_key, lag) ==
    LET tenant_id == artifact.policy.tenant
        auth == IF api_key # None THEN validate_api_key(tenant_id, Unwrap(api_key))
                ELSE Ok(None)
        ttl_ok == validate_ttl(tenant_id, artifact.ttl_seconds)
        region_ok == validate_region(tenant_id, artifact.policy.region)
        compliance_ok == validate_compliance(tenant_id, artifact.policy.phi,
                                             artifact.policy.pii)
        expires_at == store_expires_at(artifact.ttl_seconds, t)
        w == cache_set(r, t + lag, key, artifact, expires_at)
    IN  IF IsBlank(key) THEN Outcome(r, t, m, BadRequest(<<"key is required">>))
        ELSE IF IsBlank(artifact.hash)
             THEN Outcome(r, t, m, BadRequest(<<"artifact hash is required">>))
        ELSE IF ~ttl_ok.ok THEN Outcome(r, t, m, ttl_ok)
        ELSE IF ~auth.ok THEN Outcome(r, t, m, auth)
        ELSE IF ~region_ok.ok THEN Outcome(r, t, m, region_ok)
        ELSE IF ~compliance_ok.ok THEN Outcome(r, t, m, compliance_ok)
        ELSE IF ~w.result.ok THEN Outcome(r, t + lag, m, w.result)
        ELSE LET cached == w.result.value
             IN  Outcome(w.redis, t + lag, record_cache_store(m),
                         Ok([key |-> cached.key, status |-> "created",
                             hash |-> cached.artifact.hash,
                             expires_at |-> cached.expires_at]))

\* handle_store; lag is the time between the handler's clock reading and
\* the one RedisCache::set takes
handle_store(r, t, m, key, artifact, api_key, lag) ==
    LET tenant_id == artifact.policy.tenant
        auth == IF api_key # None THEN validate_api_key(tenant_id, Unwrap(api_key))
                ELSE Ok(None)
        ttl_ok == validate_ttl(tenant_id, artifact.ttl_seconds)
        region_ok == validate_region(tenant_id, artifact.policy.region)
        compliance_ok == validate_compliance(tenant_id, artifact.policy.phi,
                                             artifact.policy.pii)
        expires_at == store_expires_at(artifact.ttl_seconds, t)
        w == cache_set(r, t + lag, key, artifact, expires_at)
    IN  IF IsBlank(key) THEN Outcome(r, t, m, BadRequest(<<"key is required">>))
        ELSE IF IsBlank(artifact.hash)
             THEN Outcome(r, t, m, BadRequest(<<"artifact hash is required">>))
        ELSE IF ~auth.ok THEN Outcome(r, t, m, auth)
        ELSE IF ~ttl_ok.ok THEN Outcome(r, t, m, ttl_ok)
        ELSE IF ~region_ok.ok THEN Outcome(r, t, m, region_ok)
        ELSE IF ~compliance_ok.ok THEN Outcome(r, t, m, compliance_ok)
        ELSE IF ~w.result.ok THEN Outcome(r, t + lag, m, w.result)
        ELSE LET cached == w.result.value
             IN  Outcome(w.redis, t + lag, record_cache_store(m),
                         Ok([key |-> cached.key, status |-> "created",
                             hash |-> cached.artifact.hash,
                             expires_at |-> cached.expires_at]))

\* LookupResponse
LookupResponse(record, t) ==
    [key |-> record.key, artifact |-> record.artifact,
     expires_at |-> record.expires_at,
     ttl_remaining_seconds |-> ttl_remaining_seconds(record, t)]

\* the expiry handle_lookup gives a record hydrated from upstream (api.rs 215-238)
hydrate_expires_at(upstream_record, t) ==
    LET e1 == upstream_record.expires_at
        e2 == IF e1 = None /\ upstream_record.ttl_remaining_seconds # None
                 /\ Unwrap(upstream_record.ttl_remaining_seconds) > 0
              THEN Some(t + Seconds(Unwrap(upstream_record.ttl_remaining_seconds)))
              ELSE e1
        e3 == IF e2 = None /\ upstream_record.artifact.ttl_seconds # None
                 /\ Unwrap(upstream_record.artifact.ttl_seconds) > 0
              THEN Some(t + Seconds(Unwrap(upstream_record.artifact.ttl_seconds)))
              ELSE e2
    IN  IF e3 = None /\ default_ttl_seconds > 0
        THEN Some(t + Seconds(default_ttl_seconds))
        ELSE e3

\* hydration that answers with the record but does not keep it
hydrate_no_write(r, t, m, key, tenant, api_key, upstream_record, lag) ==
    LET tenant_id == upstream_record.artifact.policy.tenant
        auth == IF api_key # None THEN validate_api_key(tenant_id, Unwrap(api_key))
                ELSE Ok(None)
        expires_at == hydrate_expires_at(upstream_record, t)
        w == cache_set(r, t + lag, key, upstream_record.artifact, expires_at)
    IN  IF tenant # None /\ Unwrap(tenant) # tenant_id
        THEN Outcome(r, t, record_upstream_failure(m), NotFound(<<"cache miss">>))
        ELSE IF ~auth.ok THEN Outcome(r, t, m, auth)
        ELSE IF ~w.result.ok THEN Outcome(r, t + lag, m, w.result)
        ELSE Outcome(r, t + lag, record_cache_store(m),
                     Ok(LookupResponse(w.result.value, t + lag)))

\* hydration that does not compare the upstream record's tenant with the
\* tenant of the query
hydrate_any_tenant(r, t, m, key, tenant, api_key, upstream_record, lag) ==
    LET tenant_id == upstream_record.artifact.policy.tenant
        auth == IF api_key # None THEN validate_api_key(tenant_id, Unwrap(api_key))
                ELSE Ok(None)
        expires_at == hydrate_expires_at(upstream_record, t)
        w == cache_set(r, t + lag, key, upstream_record.artifact, expires_at)
    IN  IF ~auth.ok THEN Outcome(r, t, m, auth)
        ELSE IF ~w.result.ok THEN Outcome(r, t + lag, m, w.result)
        ELSE Outcome(w.redis, t + lag, record_cache_store(m),
                     Ok(LookupResponse(w.result.value, t + lag)))

\* handle_lookup, the branch Ok(Some(upstream_record)) of the upstream call
hydrate(r, t, m, key, tenant, api_key, upstream_record, lag) ==
    LET tenant_id == upstream_record.artifact.policy.tenant
        auth == IF api_key # None THEN validate_api_key(tenant_id, Unwrap(api_key))
                ELSE Ok(None)
        expires_at == hydrate_expires_at(upstream_record, t)
        w == cache_set(r, t + lag, key, upstream_record.artifact, expires_at)
    IN  IF tenant # None /\ Unwrap(tenant) # tenant_id
        THEN Outcome(r, t, record_upstream_failure(m), NotFound(<<"cache miss">>))
        ELSE IF ~auth.ok THEN Outcome(r, t, m, auth)
        ELSE IF ~w.result.ok THEN Outcome(r, t + lag, m, w.result)
        ELSE Outcome(w.redis, t + lag, record_cache_store(m),
                     Ok(LookupResponse(w.result.value, t + lag)))

\* the hit branch with the credential checked before the tenant
lookup_hit_auth_first(r, t, m, record, tenant, api_key, lag) ==
    LET tenant_id == record.artifact.policy.tenant
        auth == IF api_key # None THEN validate_api_key(tenant_id, Unwrap(api_key))
                ELSE Ok(None)
    IN  IF ~auth.ok THEN Outcome(r, t, m, auth)
        ELSE IF tenant # None /\ Unwrap(tenant) # tenant_id
        THEN Outcome(r, t, record_cache_miss(m), NotFound(<<"cache miss">>))
        ELSE Outcome(r, t + lag, record_cache_hit(m),
                     Ok(LookupResponse(record, t + lag)))

\* the hit branch with the hit counted before the tenant is compared
lookup_hit_counted_first(r, t, m, record, tenant, api_key, lag) ==
    LET tenant_id == record.artifact.policy.tenant
        auth == IF api_key # None THEN validate_api_key(tenant_id, Unwrap(api_key))
                ELSE Ok(None)
    IN  IF tenant # None /\ Unwrap(tenant) # tenant_id
        THEN Outcome(r, t, record_cache_hit(m), NotFound(<<"cache miss">>))
        ELSE IF ~auth.ok THEN Outcome(r, t, m, auth)
        ELSE Outcome(r, t + lag, record_cache_hit(m),
                     Ok(LookupResponse(record, t + lag)))

\* the hit branch with a miss counted when the api key is refused
lookup_hit_refusal_counted(r, t, m, record, tenant, api_key, lag) ==
    LET tenant_id == record.artifact.policy.tenant
        auth == IF api_key # None THEN validate_api_key(tenant_id, Unwrap(api_key))
                ELSE Ok(None)
    IN  IF tenant # None /\ Unwrap(tenant) # tenant_id
        THEN Outcome(r, t, record_cache_miss(m), NotFound(<<"cache miss">>))
        ELSE IF ~auth.ok THEN Outcome(r, t, record_cache_miss(m), auth)
        ELSE Outcome(r, t + lag, record_cache_hit(m),
                     Ok(LookupResponse(record, t + lag)))

\* handle_lookup, the branch Some(record) of the cache read (api.rs 152-181)
lookup_hit(r, t, m, record, tenant, api_key, lag) ==
    LET tenant_id == record.artifact.policy.tenant
        auth == IF api_key # None THEN validate_api_key(tenant_id, Unwrap(api_key))
                ELSE Ok(None)
    IN  IF tenant # None /\ Unwrap(tenant) # tenant_id
        THEN Outcome(r, t, record_cache_miss(m), NotFound(<<"cache miss">>))
        ELSE IF ~auth.ok THEN Outcome(r, t, m, auth)
        ELSE Outcome(r, t + lag, record_cache_hit(m),
                     Ok(LookupResponse(record, t + lag)))

\* the miss branch with an upstream error taken for an upstream miss
lookup_miss_err_as_none(r, t, m, key, tenant, api_key, up, lag) ==
    LET m1 == record_cache_miss(m)
    IN  IF ~upstream
        THEN Outcome(r, t, m1, NotFound(<<"cache miss">>))
        ELSE LET m2 == record_upstream_request(m1)
             IN  CASE up.kind = "some" ->
                         hydrate(r, t, m2, key, tenant, api_key, up.record, lag)
                   [] up.kind = "none" ->
                         Outcome(r, t, m2, NotFound(<<"cache miss">>))
                   [] up.kind = "err" ->
                         Outcome(r, t, m2, NotFound(<<"cache miss">>))

\* handle_lookup, the branch None of the cache read (api.rs 182-276)
lookup_miss(r, t, m, key, tenant, api_key, up, lag) ==
    LET m1 == record_cache_miss(m)
    IN  IF ~upstream
        THEN Outcome(r, t, m1, NotFound(<<"cache miss">>))
        ELSE LET m2 == record_upstream_request(m1)
             IN  CASE up.kind = "some" ->
                         hydrate(r, t, m2, key, tenant, api_key, up.record, lag)
                   [] up.kind = "none" ->
                         Outcome(r, t, m2, NotFound(<<"cache miss">>))
                   [] up.kind = "err" ->
                         Outcome(r, t, record_upstream_failure(m2),
                                 Internal(<<"internal error">>))

\* handle_lookup; up is what UpstreamClient::lookup answers when it is asked,
\* lag the time between the clock reading of RedisCache::get and the later
\* ones of the handler
handle_lookup(r, t, m, key, tenant, api_key, up, lag) ==
    LET g == cache_get(r, t, key)
    IN  IF IsBlank(key)
        THEN Outcome(r, t, m, BadRequest(<<"key query parameter is required">>))
        ELSE IF g.value # None
        THEN lookup_hit(g.redis, t, m, Unwrap(g.value), tenant, api_key, lag)
        ELSE lookup_miss(g.redis, t, m, key, tenant, api_key, up, lag)

\* whether a cached record carries the hash: handle_purge 313-318, and the
\* same test in the SUPERSEDED_BY handler
has_hash(record, h) ==
    (\E i \in DOMAIN record.artifact.provenance :
        record.artifact.provenance[i].hash = Some(h))
    \/ record.artifact.hash = h

\* the loop of handle_purge over the scanned keys (api.rs 311-324): each key
\* is fetched with RedisCache::get, which drops it when it has expired; a
\* key whose fetch fails (the keys in failing) is passed over, the error
\* being discarded by `if let Ok(Some(..))`
RECURSIVE purge_scan(_, _, _, _, _, _)
purge_scan(r, t, keys, h, failing, to_purge) ==
    IF keys = <<>> THEN [redis |-> r, to_purge |-> to_purge]
    ELSE IF Head(keys) \in failing
    THEN purge_scan(r, t, Tail(keys), h, failing, to_purge)
    ELSE LET g == cache_get(r, t, Head(keys))
         IN  purge_scan(g.redis, t, Tail(keys), h, failing,
                        IF g.value # None /\ has_hash(Unwrap(g.value), h)
                        THEN Append(to_purge, Head(keys)) ELSE to_purge)

\* the purge mode with the tenant looked at before the keys
purge_mode_tenant_first(keys, tenant, provenance_hash) ==
    IF tenant # None THEN "tenant"
    ELSE IF keys # <<>> THEN "keys"
    ELSE IF provenance_hash # None THEN "provenance"
    ELSE "none"

\* which purge mode a request selects (api.rs 295-331)
purge_mode(keys, tenant, provenance_hash) ==
    IF keys # <<>> THEN "keys"
    ELSE IF tenant # None THEN "tenant"
    ELSE IF provenance_hash # None THEN "provenance"
    ELSE "none"

\* handle_purge; failing is the set of keys whose RedisCache::get fails
\* while this request runs
handle_purge(r, t, m, keys, tenant, provenance_hash, api_key, failing) ==
    LET auth == IF tenant # None /\ api_key # None
                THEN validate_api_key(Unwrap(tenant), Unwrap(api_key))
                ELSE Ok(None)
        mode == purge_mode(keys, tenant, provenance_hash)
        d == CASE mode = "keys" -> cache_delete_many(r, keys)
               [] mode = "tenant" ->
                    cache_delete_many(r,
                        SetToSeq(scan_by_pattern(r, Unwrap(tenant) \o <<":", "*">>)))
               [] mode = "provenance" ->
                    LET sc == purge_scan(r, t, SetToSeq(scan_by_pattern(r, <<"*">>)),
                                         Unwrap(provenance_hash), failing, <<>>)
                    IN  cache_delete_many(sc.redis, sc.to_purge)
               [] OTHER -> [redis |-> r, deleted |-> 0]
    IN  IF ~auth.ok THEN Outcome(r, t, m, auth)
        ELSE IF mode = "none"
        THEN Outcome(r, t, m,
                     BadRequest(<<"must specify keys, tenant, or provenance_hash">>))
        ELSE Outcome(d.redis, t, record_cache_purge(m, d.deleted),
                     Ok([purged |-> d.deleted]))

-----------------------------------------------------------------------------
(* Event listener: events.rs *)

EventTypes == {<<"SUPERSEDED_BY">>, <<"REVOKE_CAPSULE">>, <<"INVALIDATE_TENANT">>,
               <<"UPDATE_TTL">>}

\* the fields each variant of GraphEvent requires
RequiredFields(type) ==
    CASE type = <<"SUPERSEDED_BY">> -> {"old_hash", "new_hash", "tenant"}
      [] type = <<"REVOKE_CAPSULE">> -> {"capsule_id", "tenant"}
      [] type = <<"INVALIDATE_TENANT">> -> {"tenant"}
      [] type = <<"UPDATE_TTL">> -> {"pattern", "tenant", "new_ttl_seconds"}

\* serde_json::from_str::<GraphEvent>: None when the payload does not decode
parse_event(j) ==
    IF j.t = "obj" /\ "type" \in DOMAIN j.o /\ j.o.type.t = "str"
       /\ j.o.type.s \in EventTypes
       /\ RequiredFields(j.o.type.s) \subseteq DOMAIN j.o
       /\ \A f \in RequiredFields(j.o.type.s) :
             j.o[f].t = (IF f = "new_ttl_seconds" THEN "num" ELSE "str")
    THEN Some(j.o)
    ELSE None

\* str::contains
Contains(s, sub) ==
    \E i \in 0..(Len(s) - Len(sub)) : SubSeq(s, i + 1, i + Len(sub)) = sub

has_capsule(record, capsule_id) ==
    \E i \in DOMAIN record.artifact.provenance :
        Contains(record.artifact.provenance[i].source, capsule_id)

\* the loops of the SUPERSEDED_BY and REVOKE_CAPSULE handlers: fetch each
\* scanned key and delete it when the record matches
RECURSIVE event_loop(_, _, _, _, _)
event_loop(r, t, keys, type, needle) ==
    IF keys = <<>> THEN r
    ELSE LET g == cache_get(r, t, Head(keys))
             hit == g.value # None
                    /\ IF type = <<"SUPERSEDED_BY">>
                       THEN has_hash(Unwrap(g.value), needle)
                       ELSE has_capsule(Unwrap(g.value), needle)
         IN  event_loop(IF hit THEN cache_delete(g.redis, Head(keys)).redis
                        ELSE g.redis,
                        t, Tail(keys), type, needle)

\* handle_event with a tenant invalidation that fails when the scan finds
\* no key (a DEL sent without arguments)
handle_event_empty_del(r, t, payload) ==
    LET parsed == parse_event(payload)
        event == Unwrap(parsed)
        keys == SetToSeq(scan_by_pattern(r, event.tenant.s \o <<":", "*">>))
    IN  IF parsed = None
        THEN [redis |-> r, result |-> Internal(<<"Failed to parse event">>)]
        ELSE CASE event.type.s = <<"SUPERSEDED_BY">> ->
                    [redis |-> event_loop(r, t, keys, event.type.s, event.old_hash.s),
                     result |-> Ok(None)]
               [] event.type.s = <<"REVOKE_CAPSULE">> ->
                    [redis |-> event_loop(r, t, keys, event.type.s, event.capsule_id.s),
                     result |-> Ok(None)]
               [] event.type.s = <<"INVALIDATE_TENANT">> ->
                    [redis |-> cache_delete_many(r, keys).redis,
                     result |-> IF keys = <<>> THEN Internal(<<"Redis DEL failed">>)
                                ELSE Ok(None)]
               [] event.type.s = <<"UPDATE_TTL">> ->
                    [redis |-> r, result |-> Ok(None)]

\* handle_event with an UPDATE_TTL that is enforced by dropping the tenant's
\* records, to be stored again with the new TTL
handle_event_ttl_enforced(r, t, payload) ==
    LET parsed == parse_event(payload)
        event == Unwrap(parsed)
        keys == SetToSeq(scan_by_pattern(r, event.tenant.s \o <<":", "*">>))
    IN  IF parsed = None
        THEN [redis |-> r, result |-> Internal(<<"Failed to parse event">>)]
        ELSE CASE event.type.s = <<"SUPERSEDED_BY">> ->
                    [redis |-> event_loop(r, t, keys, event.type.s, event.old_hash.s),
                     result |-> Ok(None)]
               [] event.type.s = <<"REVOKE_CAPSULE">> ->
                    [redis |-> event_loop(r, t, keys, event.type.s, event.capsule_id.s),
                     result |-> Ok(None)]
               [] event.type.s = <<"INVALIDATE_TENANT">> ->
                    [redis |-> cache_delete_many(r, keys).redis, result |-> Ok(None)]
               [] event.type.s = <<"UPDATE_TTL">> ->
                    [redis |-> cache_delete_many(r, keys).redis, result |-> Ok(None)]

\* EventBus::handle_event
handle_event(r, t, payload) ==
    LET parsed == parse_event(payload)
        event == Unwrap(parsed)
        keys == SetToSeq(scan_by_pattern(r, event.tenant.s \o <<":", "*">>))
    IN  IF parsed = None
        THEN [redis |-> r, result |-> Internal(<<"Failed to parse event">>)]
        ELSE CASE event.type.s = <<"SUPERSEDED_BY">> ->
                    [redis |-> event_loop(r, t, keys, event.type.s, event.old_hash.s),
                     result |-> Ok(None)]
               [] event.type.s = <<"REVOKE_CAPSULE">> ->
                    [redis |-> event_loop(r, t, keys, event.type.s, event.capsule_id.s),
                     result |-> Ok(None)]
               [] event.type.s = <<"INVALIDATE_TENANT">> ->
                    [redis |-> cache_delete_many(r, keys).redis, result |-> Ok(None)]
               [] event.type.s = <<"UPDATE_TTL">> ->
                    [redis |-> r, result |-> Ok(None)]

\* a message whose payload is not UTF-8
NonUtf8 == [t |-> "bytes"]

\* the message arm of listen_loop that leaves the loop when the handler
\* returns an error
listen_message_fail_stop(r, t, payload, backend_up) ==
    LET e == handle_event(r, t, payload)
        scans == parse_event(payload) # None
                 /\ Unwrap(parse_event(payload)).type.s # <<"UPDATE_TTL">>
        result == IF payload = NonUtf8
                  THEN Internal(<<"Received non-UTF8 event payload">>)
                  ELSE IF scans /\ ~backend_up
                  THEN Internal(<<"Redis SCAN failed">>)
                  ELSE e.result
    IN  [redis |-> IF payload = NonUtf8 \/ (scans /\ ~backend_up) THEN r ELSE e.redis,
         result |-> result,
         looping |-> result.ok]

\* the message arm of listen_loop (events.rs 110-127): a payload that is
\* not UTF-8 is logged and skipped, any other goes to handle_event, whose
\* error is logged; the loop goes on in every case.  With the backend down
\* the scan a purging handler starts with fails, before any record is read.
listen_message(r, t, payload, backend_up) ==
    LET e == handle_event(r, t, payload)
        scans == parse_event(payload) # None
                 /\ Unwrap(parse_event(payload)).type.s # <<"UPDATE_TTL">>
        result == IF payload = NonUtf8
                  THEN Internal(<<"Received non-UTF8 event payload">>)
                  ELSE IF scans /\ ~backend_up
                  THEN Internal(<<"Redis SCAN failed">>)
                  ELSE e.result
    IN  [redis |-> IF payload = NonUtf8 \/ (scans /\ ~backend_up) THEN r ELSE e.redis,
         result |-> result,
         looping |-> TRUE]

\* the listener before EventBus::start: no task, no channel
NotStarted ==
    [pc |-> "initializing", bus_tx |-> FALSE, ret_tx |-> FALSE, queued |-> 0,
     open |-> FALSE, sent |-> FALSE, msg |-> None, errors |-> 0]

\* the listener in its loop, both Senders of its control channel held
Listening ==
    [NotStarted EXCEPT !.pc = "subscribed", !.bus_tx = TRUE, !.ret_tx = TRUE,
                       !.open = TRUE]

SupersededBy(old_hash, new_hash, tenant) ==
    JObj([type |-> JStr(<<"SUPERSEDED_BY">>), old_hash |-> JStr(old_hash),
          new_hash |-> JStr(new_hash), tenant |-> JStr(tenant)])
RevokeCapsule(capsule_id, tenant) ==
    JObj([type |-> JStr(<<"REVOKE_CAPSULE">>), capsule_id |-> JStr(capsule_id),
          tenant |-> JStr(tenant)])
InvalidateTenant(tenant) ==
    JObj([type |-> JStr(<<"INVALIDATE_TENANT">>), tenant |-> JStr(tenant)])
UpdateTtl(pattern, tenant, new_ttl_seconds) ==
    JObj([type |-> JStr(<<"UPDATE_TTL">>), pattern |-> JStr(pattern),
          tenant |-> JStr(tenant), new_ttl_seconds |-> JNum(new_ttl_seconds)])

-----------------------------------------------------------------------------
(* The values requests are drawn from *)

MaxLag == 1
MaxRequests == 2

T1 == <<"t", "1">>
T2 == <<"t", "2">>
K_t1a == <<"t", "1", ":", "a">>
K_t1b == <<"t", "1", ":", "b">>
K_t2c == <<"t", "2", ":", "c">>
BlankStr == <<" ">>
H1 == <<"h", "1">>
H2 == <<"v", "1">>
ApiKey1 == <<"k", "1">>
WrongKey == <<"x">>

Artifact(tenant, hash, provenance, ttl_seconds) ==
    [answer |-> JStr(<<"h", "i">>),
     policy |-> [tenant |-> tenant, phi |-> FALSE, pii |-> FALSE, region |-> None,
                 compliance_tags |-> <<>>],
     provenance |-> provenance,
     metrics |-> None,
     ttl_seconds |-> ttl_seconds,
     hash |-> hash,
     metadata |-> None]

Provenance(source, hash) ==
    [source |-> source, hash |-> hash, version |-> None, generated_at |-> None]

TenantConfig(tenant_id, api_key, max_ttl_seconds) ==
    [tenant_id |-> tenant_id, api_key |-> api_key, allowed_regions |-> <<>>,
     max_ttl_seconds |-> max_ttl_seconds,
     require_phi_compliance |-> FALSE, require_pii_compliance |-> FALSE]

\* the tenants file loaded at boot: t1 with a TTL ceiling of one second;
\* t2 is not registered
Registry == [x \in {T1} |-> TenantConfig(T1, ApiKey1, Some(1))]

EU == <<"e", "u">>
US == <<"u", "s">>
AP == <<"a", "p">>

\* a tenants-file entry that restricts regions
RegionalConfig(tenant_id, api_key, max_ttl_seconds, allowed_regions) ==
    [tenant_id |-> tenant_id, api_key |-> api_key,
     allowed_regions |-> allowed_regions,
     max_ttl_seconds |-> max_ttl_seconds,
     require_phi_compliance |-> TRUE, require_pii_compliance |-> TRUE]

\* tenants files a deployment may boot with: t1 with a TTL ceiling of one
\* second, with no region restriction or restricted to eu and us; t2 is
\* not registered
PolicyRegistries ==
    {[x \in {T1} |-> RegionalConfig(T1, ApiKey1, Some(1), regions)] :
        regions \in {<<>>, <<EU, US>>}}

\* an artifact that names its region and carries PHI
RegionArtifact(tenant, hash, ttl_seconds, region) ==
    [Artifact(tenant, hash, <<>>, ttl_seconds) EXCEPT
        !.policy.region = region, !.policy.phi = TRUE]

EmptyRedis == [x \in {} |-> None]

\* an artifact with every optional field filled in
RichArtifact ==
    [answer |-> JObj([text |-> JStr(<<"h", "i">>), n |-> JNum(3)]),
     policy |-> [tenant |-> T2, phi |-> TRUE, pii |-> FALSE,
                 region |-> Some(<<"e", "u">>), compliance_tags |-> <<<<"g">>>>],
     provenance |-> <<[source |-> <<"c", "1">>, hash |-> Some(H2),
                       version |-> Some(<<"2">>), generated_at |-> Some(3)]>>,
     metrics |-> Some(JObj([score |-> JNum(1)])),
     ttl_seconds |-> Some(2),
     hash |-> H1,
     metadata |-> Some(JArr(<<JBool(TRUE)>>))]

\* inputs of the expiry runs: one key, one tenant without a policy entry,
\* every TTL shape
TtlInputs ==
    [keys |-> {K_t1a},
     artifacts |-> {Artifact(T2, H1, <<>>, ttl) :
                        ttl \in {None, Some(0), Some(1), Some(2)}}
                   \cup {RichArtifact},
     api_keys |-> {None},
     tenants |-> {None},
     ups |-> {[kind |-> "none"]},
     lags |-> 0..MaxLag,
     purge_keys |-> {<<>>, <<K_t1a>>},
     purge_tenants |-> {None},
     purge_hashes |-> {None},
     get_failures |-> {{}},
     events |-> {InvalidateTenant(T1)}]

\* inputs of the tenant-isolation runs: one key, a registered and an
\* unregistered tenant, api keys, a TTL above t1's ceiling
TenantInputs ==
    [keys |-> {K_t1a},
     artifacts |-> {Artifact(tn, H1, <<>>, ttl) :
                        tn \in {T1, T2}, ttl \in {None, Some(2)}},
     api_keys |-> {None, Some(ApiKey1), Some(WrongKey)},
     tenants |-> {None, Some(T1), Some(T2)},
     ups |-> {[kind |-> "none"]},
     lags |-> {0},
     purge_keys |-> {<<>>},
     purge_tenants |-> {None, Some(T1)},
     purge_hashes |-> {None},
     get_failures |-> {{}},
     events |-> {InvalidateTenant(T2)}]

\* inputs of the policy runs: requests that fail none, one or several of
\* handle_store's checks at once
PolicyInputs ==
    [keys |-> {K_t1a, BlankStr},
     artifacts |-> {RegionArtifact(T1, h, ttl, region) :
                        h \in {H1, <<>>}, ttl \in {Some(1), Some(2)},
                        region \in {None, Some(US), Some(AP)}}
                   \cup {RegionArtifact(T2, H1, Some(2), Some(AP))},
     api_keys |-> {None, Some(ApiKey1), Some(WrongKey)},
     tenants |-> {None},
     ups |-> {[kind |-> "none"]},
     lags |-> {0},
     purge_keys |-> {<<K_t1a>>},
     purge_tenants |-> {None},
     purge_hashes |-> {None},
     get_failures |-> {{}},
     events |-> {}]

\* what the upstream service answers to GET /lookup: a LookupResponse
UpstreamRecord(artifact, expires_at, ttl_remaining) ==
    [kind |-> "some",
     record |-> [key |-> K_t1a, artifact |-> artifact, expires_at |-> expires_at,
                 ttl_remaining_seconds |-> ttl_remaining]]

\* inputs of the hydration runs: one key, an upstream that fails, misses, or
\* answers with each source of expiry (an explicit instant, a remaining
\* TTL, the artifact's TTL, none), with an artifact whose hash is empty
UpstreamInputs ==
    [keys |-> {K_t1a},
     artifacts |-> {Artifact(T2, H1, <<>>, Some(2)), Artifact(<<>>, H1, <<>>, None)},
     api_keys |-> {None},
     tenants |-> {None},
     ups |-> {[kind |-> "none"], [kind |-> "err"],
              UpstreamRecord(Artifact(T2, H1, <<>>, None), None, None),
              UpstreamRecord(Artifact(T2, H1, <<>>, Some(1)), Some(2), Some(2)),
              UpstreamRecord(Artifact(T2, H1, <<>>, Some(2)), None, Some(0)),
              UpstreamRecord(Artifact(T2, H1, <<>>, Some(2)), None, Some(1)),
              UpstreamRecord(Artifact(T2, <<>>, <<>>, None), None, Some(2))},
     lags |-> {0, MaxLag},
     purge_keys |-> {<<K_t1a>>},
     purge_tenants |-> {None},
     purge_hashes |-> {None},
     get_failures |-> {{}},
     events |-> {InvalidateTenant(T1)}]

\* inputs of the api-key runs: a registered and an unregistered tenant, the
\* right key, a wrong one and none, on store, on lookup (served from the
\* cache or hydrated) and on purge
AuthInputs ==
    [keys |-> {K_t1a},
     artifacts |-> {Artifact(T1, H1, <<>>, Some(1)), Artifact(T2, H1, <<>>, None)},
     api_keys |-> {None, Some(ApiKey1), Some(WrongKey)},
     tenants |-> {None, Some(T1)},
     ups |-> {[kind |-> "none"],
              UpstreamRecord(Artifact(T1, H2, <<>>, None), None, None)},
     lags |-> {0},
     purge_keys |-> {<<>>, <<K_t1a>>},
     purge_tenants |-> {None, Some(T1), Some(T2)},
     purge_hashes |-> {None},
     get_failures |-> {{}},
     events |-> {}]

\* inputs of the upstream-mismatch runs: lookups with and without a tenant
\* and an api key, an upstream that answers with a record of t1 or of t2
MismatchInputs ==
    [keys |-> {K_t1a},
     artifacts |-> {Artifact(T1, H1, <<>>, Some(1))},
     api_keys |-> {None, Some(ApiKey1), Some(WrongKey)},
     tenants |-> {None, Some(T1)},
     ups |-> {[kind |-> "none"],
              UpstreamRecord(Artifact(T1, H2, <<>>, None), None, None),
              UpstreamRecord(Artifact(T2, H2, <<>>, None), None, None)},
     lags |-> {0},
     purge_keys |-> {},
     purge_tenants |-> {},
     purge_hashes |-> {},
     get_failures |-> {},
     events |-> {}]

TGlob == <<"t", "?">>
Cap1 == <<"c", "1">>

\* the clock readings of the purge and invalidation runs: enough for a
\* one-second TTL to run out
MaxStale == 3

\* inputs of the purge runs: three keys under two tenant prefixes, purge
\* requests with every mix of discriminators (a repeated key, a tenant that
\* holds a glob character), a failing read
PurgeInputs ==
    [keys |-> {K_t2c},
     artifacts |-> {},
     api_keys |-> {None, Some(WrongKey)},
     tenants |-> {None},
     ups |-> {[kind |-> "none"]},
     lags |-> {0},
     purge_keys |-> {<<>>, <<K_t2c, K_t2c>>},
     purge_tenants |-> {None, Some(T1), Some(TGlob)},
     purge_hashes |-> {None, Some(H1)},
     get_failures |-> {{}, {K_t1a}},
     events |-> {}]

\* inputs of the invalidation runs: every kind of event for tenant t1, and
\* a payload of an unknown type
EventInputs ==
    [keys |-> {K_t1b},
     artifacts |-> {Artifact(T1, H2, <<Provenance(Cap1, Some(H1))>>, Some(1))},
     api_keys |-> {None},
     tenants |-> {None},
     ups |-> {[kind |-> "none"]},
     lags |-> {0},
     purge_keys |-> {},
     purge_tenants |-> {},
     purge_hashes |-> {},
     get_failures |-> {},
     events |-> {SupersededBy(H1, H2, T1), SupersededBy(H1, H2, TGlob),
                 RevokeCapsule(<<"c">>, T1), RevokeCapsule(<<"c">>, TGlob),
                 InvalidateTenant(T1), UpdateTtl(<<"*">>, T1, 5),
                 JObj([type |-> JStr(<<"N", "O">>), tenant |-> JStr(T1)])}]

\* a lookup that has not been received yet
NotReceived ==
    [pc |-> "idle", up |-> None, missed |-> FALSE, seq |-> 0, resp |-> None]

\* no lookup is being served
NoRequests == [i \in 1..MaxRequests |-> NotReceived]

\* what upstream answers to the lookups of one key in the concurrent runs:
\* nothing, or a record without an explicit expiry, with one of two
\* artifacts and with or without a remaining TTL
ConcurrentAnswers ==
    {[kind |-> "none"],
     UpstreamRecord(Artifact(T1, H1, <<>>, None), None, Some(2)),
     UpstreamRecord(Artifact(T1, H1, <<>>, None), None, None),
     UpstreamRecord(Artifact(T1, H2, <<>>, None), None, None)}

\* what the event stream may deliver to the listener: events that apply,
\* a payload that is not UTF-8, an unknown type, a missing field
Messages ==
    {InvalidateTenant(T1), SupersededBy(H1, H2, T1), UpdateTtl(<<"*">>, T1, 5),
     NonUtf8,
     JObj([type |-> JStr(<<"N", "O">>), tenant |-> JStr(T1)]),
     JObj([type |-> JStr(<<"REVOKE_CAPSULE">>), tenant |-> JStr(T1)])}

\* the store requests an earlier run of the service may have served: for
\* each key none or one of two artifacts, with and without a TTL, carrying
\* the hash h1 as their own or in their provenance
PreloadRuns ==
    {a \o b \o c :
        a \in {<<>>, <<<<K_t1a, Artifact(T1, H1, <<>>, None)>>>>,
                <<<<K_t1a, Artifact(T1, H2, <<Provenance(Cap1, Some(H1))>>, Some(1))>>>>},
        b \in {<<>>, <<<<K_t1b, Artifact(T1, H2, <<>>, Some(1))>>>>},
        c \in {<<>>, <<<<K_t2c, Artifact(T2, H1, <<Provenance(Cap1, None)>>, None)>>>>,
                <<<<K_t2c, Artifact(T2, H2, <<>>, None)>>>>}}

\* Redis after the stores of run, served by handle_store at clock reading 0
RECURSIVE Preload(_, _)
Preload(r, run) ==
    IF run = <<>> THEN r
    ELSE Preload(handle_store(r, 0, ZeroMetrics, run[1][1], run[1][2], None, 0).redis,
                 Tail(run))

-----------------------------------------------------------------------------
(* Actions: one per request handler, event delivery and clock step *)

Capped(m) ==
    /\ m.cache_hits <= MaxCount
    /\ m.cache_misses <= MaxCount
    /\ m.cache_stores <= MaxCount
    /\ m.upstream_requests <= MaxCount

Config == <<tenants, default_ttl_seconds, upstream>>

\* the record Redis holds under a key, decoded, whether expired or not
Held(r, key) ==
    IF build_redis_key(key) \in DOMAIN r
    THEN Some(CachedArtifactFromJson(r[build_redis_key(key)].json))
    ELSE None

\* a record is expired at clock reading t
Expired(record, t) ==
    record.expires_at # None /\ Unwrap(record.expires_at) <= t

\* the history kept for the keys whose entry r2 still holds as r1 held it
StillStored(r1, r2) ==
    [k \in {x \in DOMAIN stored :
                /\ build_redis_key(x) \in DOMAIN r1 \cap DOMAIN r2
                /\ r1[build_redis_key(x)] = r2[build_redis_key(x)]} |-> stored[k]]

\* the handler's outcome o becomes the state
Applied(o) ==
    /\ o.now <= MaxTime
    /\ Capped(o.metrics)
    /\ redis' = o.redis
    /\ now' = o.now
    /\ metrics' = o.metrics
    /\ UNCHANGED <<Config, listener, requests>>

\* POST /store
Store(P) ==
    \E key \in P.keys, artifact \in P.artifacts, api_key \in P.api_keys,
       lag \in P.lags :
        LET o == handle_store(redis, now, metrics, key, artifact, api_key, lag)
        IN  /\ Applied(o)
            /\ last' = [op |-> "store", resp |-> o.resp, found |-> None,
                        req |-> [key |-> key, artifact |-> artifact,
                                 api_key |-> api_key]]
            /\ stored' = IF o.resp.ok
                         THEN Put(StillStored(redis, o.redis), key,
                                  [artifact |-> artifact,
                                   ttl |-> UnwrapOr(artifact.ttl_seconds,
                                                    default_ttl_seconds)])
                         ELSE StillStored(redis, o.redis)

\* GET /lookup
Lookup(P) ==
    \E key \in P.keys, tenant \in P.tenants, api_key \in P.api_keys, up \in P.ups,
       lag \in P.lags :
        LET o == handle_lookup(redis, now, metrics, key, tenant, api_key, up, lag)
        IN  /\ Applied(o)
            /\ last' = [op |-> "lookup", resp |-> o.resp, found |-> Held(redis, key),
                        req |-> [key |-> key, tenant |-> tenant,
                                 api_key |-> api_key, up |-> up, lag |-> lag],
                        wrote |-> o.metrics.cache_stores # metrics.cache_stores]
            /\ stored' = StillStored(redis, o.redis)

\* POST /purge
Purge(P) ==
    \E keys \in P.purge_keys, tenant \in P.purge_tenants,
       provenance_hash \in P.purge_hashes, api_key \in P.api_keys,
       failing \in P.get_failures :
        LET o == handle_purge(redis, now, metrics, keys, tenant, provenance_hash,
                              api_key, failing)
        IN  /\ Applied(o)
            /\ last' = [op |-> "purge", resp |-> o.resp, found |-> None,
                        req |-> [keys |-> keys, tenant |-> tenant,
                                 provenance_hash |-> provenance_hash,
                                 api_key |-> api_key, failing |-> failing]]
            /\ stored' = StillStored(redis, o.redis)

\* one message delivered to the listener (listen_loop, Some(msg)); found
\* tells whether the message before it was the same one
Event(P) ==
    \E payload \in P.events :
        LET e == handle_event(redis, now, payload)
        IN  /\ listener.pc = "subscribed"
            /\ redis' = e.redis
            /\ last' = [op |-> "event", resp |-> e.result,
                        found |-> IF last.op = "event" /\ last.req.payload = payload
                                  THEN Some(payload) ELSE None,
                        req |-> [payload |-> payload]]
            /\ stored' = StillStored(redis, e.redis)
            /\ UNCHANGED <<now, metrics, Config, listener, requests>>

\* the wall clock advances, up to the horizon of the run
Tick(horizon) ==
    /\ now < horizon
    /\ now' = now + 1
    /\ last' = [op |-> "tick", resp |-> Ok(None), found |-> None, req |-> None]
    /\ UNCHANGED <<redis, metrics, Config, listener, requests, stored>>

\* Redis drops a key whose native TTL has run out
BackendExpire ==
    \E pk \in DOMAIN redis :
        /\ redis[pk].deadline # None
        /\ Unwrap(redis[pk].deadline) <= now
        /\ redis' = Remove(redis, pk)
        /\ last' = [op |-> "expire", resp |-> Ok(None), found |-> None, req |-> None]
        /\ stored' = StillStored(redis, redis')
        /\ UNCHANGED <<now, metrics, Config, listener, requests>>

\* a step of the listener or of the owner of its EventBus; the cache, the
\* clock and the counters stay as they are
ListenerStep(op, resp) ==
    /\ last' = [op |-> op, resp |-> resp, found |-> None, req |-> None]
    /\ UNCHANGED <<redis, now, metrics, Config, requests, stored>>

\* EventBus::start: connect and subscribe, create the control channel, keep
\* one Sender, spawn listen_loop and return the other Sender; or fail to
\* connect or subscribe, spawning nothing
Start ==
    /\ listener.pc = "initializing"
    /\ \/ /\ listener' = Listening
          /\ ListenerStep("start", Ok(None))
       \/ /\ listener' = listener
          /\ last.op # "start"
          /\ ListenerStep("start", Internal(<<"Failed to connect to NATS">>))

\* EventBus::stop: take the Sender the bus kept, send the shutdown signal
\* (an error of send, the receiver being gone, is ignored), drop the Sender
Stop ==
    /\ listener.bus_tx
    /\ listener' = IF listener.pc = "stopped"
                   THEN [listener EXCEPT !.bus_tx = FALSE]
                   ELSE [listener EXCEPT !.bus_tx = FALSE, !.queued = 1,
                                         !.sent = TRUE]
    /\ ListenerStep("stop", Ok(None))

\* the EventBus goes out of scope without stop having been called, as at
\* the end of the block of main that started it
DropBus ==
    /\ listener.bus_tx
    /\ listener' = [listener EXCEPT !.bus_tx = FALSE]
    /\ ListenerStep("drop_bus", Ok(None))

\* the Sender start returned is dropped, as main does at once
DropReturned ==
    /\ listener.ret_tx
    /\ listener' = [listener EXCEPT !.ret_tx = FALSE]
    /\ ListenerStep("drop_returned", Ok(None))

\* the server closes the subscription, or the connection is lost
SubscriptionClosed ==
    /\ listener.pc # "initializing"
    /\ listener.open
    /\ listener' = [listener EXCEPT !.open = FALSE]
    /\ ListenerStep("closed", Ok(None))

\* select! takes the message arm: subscriber.next() yields Some(msg) and
\* the handler is entered
Dispatch ==
    \E payload \in Messages :
        /\ listener.pc = "subscribed"
        /\ listener.open
        /\ listener' = [listener EXCEPT !.pc = "handling", !.msg = Some(payload)]
        /\ ListenerStep("dispatch", Ok(None))

\* the in-flight handler returns and the loop goes round
HandlerReturn ==
    \E backend_up \in BOOLEAN :
        LET e == listen_message(redis, now, Unwrap(listener.msg), backend_up)
        IN  /\ listener.pc = "handling"
            /\ redis' = e.redis
            /\ listener' = [listener EXCEPT
                               !.pc = IF e.looping THEN "subscribed" ELSE "stopped",
                               !.msg = None,
                               !.errors = IF e.result.ok \/ @ = MaxCount THEN @
                                          ELSE @ + 1]
            /\ last' = [op |-> "event", resp |-> e.result, found |-> None,
                        req |-> [payload |-> Unwrap(listener.msg),
                                 backend_up |-> backend_up],
                        applied |-> e.redis # redis]
            /\ stored' = StillStored(redis, e.redis)
            /\ UNCHANGED <<now, metrics, Config, requests>>

\* select! takes the shutdown arm: shutdown_rx.recv() returns the queued
\* signal, or None once every Sender is gone
ReceiveShutdown ==
    /\ listener.pc = "subscribed"
    /\ listener.queued = 1 \/ (~listener.bus_tx /\ ~listener.ret_tx)
    /\ listener' = [listener EXCEPT !.pc = "draining", !.queued = 0]
    /\ ListenerStep("shutdown", Ok(None))

\* select! takes the message arm and subscriber.next() yields None: the
\* loop is left
ReceiveClosed ==
    /\ listener.pc = "subscribed"
    /\ ~listener.open
    /\ listener' = [listener EXCEPT !.pc = "stopped"]
    /\ ListenerStep("subscription_closed", Ok(None))

\* listen_loop returns Ok(()) after the shutdown arm
Return ==
    /\ listener.pc = "draining"
    /\ listener' = [listener EXCEPT !.pc = "stopped"]
    /\ ListenerStep("return", Ok(None))

\* a step of one of the lookups in flight
RequestStep(i, op) ==
    /\ last' = [op |-> op, resp |-> UnwrapOr(requests'[i].resp, Ok(None)),
                found |-> None, req |-> [id |-> i, key |-> K_t1a]]
    /\ stored' = StillStored(redis, redis')
    /\ UNCHANGED <<now, Config, listener>>

\* handle_lookup up to its first await after the cache read: a hit is
\* answered; a miss is counted and the upstream call issued
BeginLookup(i) ==
    LET g == cache_get(redis, now, K_t1a)
        hit == lookup_hit(g.redis, now, metrics, Unwrap(g.value), None, None, 0)
    IN  /\ requests[i].pc = "idle"
        /\ upstream
        /\ IF g.value # None
           THEN /\ redis' = hit.redis
                /\ metrics' = hit.metrics
                /\ requests' = [requests EXCEPT ![i].pc = "done",
                                                ![i].resp = Some(hit.resp)]
           ELSE /\ redis' = g.redis
                /\ metrics' = record_upstream_request(record_cache_miss(metrics))
                /\ requests' = [requests EXCEPT ![i].pc = "upstream",
                                                ![i].missed = TRUE]
        /\ RequestStep(i, "begin_lookup")

\* UpstreamClient::lookup returns to the handler that awaits it
UpstreamAnswers(i) ==
    \E up \in ConcurrentAnswers :
        /\ requests[i].pc = "upstream"
        /\ requests' = IF up.kind = "some"
                       THEN [requests EXCEPT ![i].pc = "hydrating",
                                             ![i].up = Some(up.record)]
                       ELSE [requests EXCEPT ![i].pc = "done",
                                             ![i].resp = Some(NotFound(<<"cache miss">>))]
        /\ UNCHANGED <<redis, metrics>>
        /\ RequestStep(i, "upstream_answers")

\* the rest of the handler: the checks, the expiry, cache.set, the response
FinishLookup(i) ==
    LET o == hydrate(redis, now, metrics, K_t1a, None, None,
                     Unwrap(requests[i].up), 0)
    IN  /\ requests[i].pc = "hydrating"
        /\ redis' = o.redis
        /\ metrics' = o.metrics
        /\ requests' = [requests EXCEPT
                           ![i].pc = "done",
                           ![i].resp = Some(o.resp),
                           ![i].seq = IF o.resp.ok THEN o.metrics.cache_stores ELSE 0]
        /\ RequestStep(i, "finish_lookup")

InitLast == [op |-> "init", resp |-> Ok(None), found |-> None, req |-> None]

\* a fresh deployment: empty Redis, counters at zero
Fresh(default_ttls) ==
    /\ redis = EmptyRedis
    /\ now = 0
    /\ metrics = ZeroMetrics
    /\ tenants = Registry
    /\ default_ttl_seconds \in default_ttls
    /\ upstream = FALSE
    /\ listener = Listening
    /\ requests = NoRequests
    /\ last = InitLast
    /\ stored = EmptyRedis

Init == Fresh({0, 1})

Next ==
    \/ Store(TtlInputs)
    \/ Lookup(TtlInputs)
    \/ Purge(TtlInputs)
    \/ Event(TtlInputs)
    \/ Tick(MaxTime)
    \/ BackendExpire

\* expiry and round trip: every TTL shape under one tenant
Spec == Init /\ [][Next]_vars

\* a fresh deployment with an upstream service configured
InitUpstream ==
    /\ redis = EmptyRedis
    /\ now = 0
    /\ metrics = ZeroMetrics
    /\ tenants = Registry
    /\ default_ttl_seconds \in {0, 1}
    /\ upstream = TRUE
    /\ listener = Listening
    /\ requests = NoRequests
    /\ last = InitLast
    /\ stored = EmptyRedis

NextUpstream ==
    \/ Store(UpstreamInputs)
    \/ Lookup(UpstreamInputs)
    \/ Purge(UpstreamInputs)
    \/ Tick(MaxStale)
    \/ BackendExpire

\* hydration from upstream on a miss
SpecUpstream == InitUpstream /\ [][NextUpstream]_vars

\* a fresh deployment with an upstream service and no default TTL
InitAuth ==
    /\ redis = EmptyRedis
    /\ now = 0
    /\ metrics = ZeroMetrics
    /\ tenants = Registry
    /\ default_ttl_seconds = 0
    /\ upstream = TRUE
    /\ listener = Listening
    /\ requests = NoRequests
    /\ last = InitLast
    /\ stored = EmptyRedis

NextAuth ==
    \/ Store(AuthInputs)
    \/ Lookup(AuthInputs)
    \/ Purge(AuthInputs)
    \/ Tick(MaxStale)
    \/ BackendExpire

\* api keys on every handler, with hydration and stale records
SpecAuth == InitAuth /\ [][NextAuth]_vars

\* a fresh deployment booted with one of the tenants files
InitPolicy ==
    /\ redis = EmptyRedis
    /\ now = 0
    /\ metrics = ZeroMetrics
    /\ tenants \in PolicyRegistries
    /\ default_ttl_seconds = 0
    /\ upstream = FALSE
    /\ listener = Listening
    /\ requests = NoRequests
    /\ last = InitLast
    /\ stored = EmptyRedis

NextPolicy ==
    \/ Store(PolicyInputs)
    \/ Lookup(PolicyInputs)
    \/ Purge(PolicyInputs)

\* the policy checks of POST /store
SpecPolicy == InitPolicy /\ [][NextPolicy]_vars

\* a fresh deployment with an upstream service, about to receive
\* MaxRequests lookups of one key
InitConcurrent ==
    /\ redis = EmptyRedis
    /\ now = 0
    /\ metrics = ZeroMetrics
    /\ tenants = Registry
    /\ default_ttl_seconds \in {0, 1}
    /\ upstream = TRUE
    /\ listener = Listening
    /\ requests = NoRequests
    /\ last = InitLast
    /\ stored = EmptyRedis

NextConcurrent ==
    \/ \E i \in 1..MaxRequests : BeginLookup(i)
    \/ \E i \in 1..MaxRequests : UpstreamAnswers(i)
    \/ \E i \in 1..MaxRequests : FinishLookup(i)
    \/ Tick(MaxLag)

\* lookups of one key served concurrently, interleaved at their awaits
SpecConcurrent == InitConcurrent /\ [][NextConcurrent]_vars

NextMismatch ==
    \/ Store(MismatchInputs)
    \/ Lookup(MismatchInputs)
    \/ Tick(MaxStale)
    \/ BackendExpire

\* hydration when upstream answers for another tenant
SpecMismatch == InitAuth /\ [][NextMismatch]_vars

InitTenant == Fresh({0})

NextTenant ==
    \/ Store(TenantInputs)
    \/ Lookup(TenantInputs)
    \/ Purge(TenantInputs)
    \/ Event(TenantInputs)
    \/ Tick(MaxTime)
    \/ BackendExpire

\* tenant isolation and policy: two tenants, api keys, a TTL ceiling
SpecTenant == InitTenant /\ [][NextTenant]_vars

\* the service restarted over a Redis that kept the records of its earlier
\* run: counters at zero, the keyspace as the earlier stores left it
InitPurge ==
    /\ now = 0
    /\ metrics = ZeroMetrics
    /\ tenants = Registry
    /\ default_ttl_seconds = 0
    /\ upstream = FALSE
    /\ listener = Listening
    /\ requests = NoRequests
    /\ last = InitLast
    /\ stored = EmptyRedis
    /\ redis \in {Preload(EmptyRedis, run) : run \in PreloadRuns}

NextPurge ==
    \/ Lookup(PurgeInputs)
    \/ Purge(PurgeInputs)
    \/ Tick(MaxStale)
    \/ BackendExpire

\* purge: three keys, two tenant prefixes, stale records
SpecPurge == InitPurge /\ [][NextPurge]_vars

NextEvents ==
    \/ Store(EventInputs)
    \/ Lookup(EventInputs)
    \/ Event(EventInputs)
    \/ Tick(MaxStale)
    \/ BackendExpire

\* invalidation events over the same keyspace
SpecEvents == InitPurge /\ [][NextEvents]_vars

\* a deployment about to start its event bus, Redis holding what an earlier
\* run stored
InitListener ==
    /\ now = 0
    /\ metrics = ZeroMetrics
    /\ tenants = Registry
    /\ default_ttl_seconds = 0
    /\ upstream = FALSE
    /\ listener = NotStarted
    /\ requests = NoRequests
    /\ last = InitLast
    /\ stored = EmptyRedis
    /\ redis \in {Preload(EmptyRedis, run) : run \in PreloadRuns}

NextListener ==
    \/ Start
    \/ Stop
    \/ DropBus
    \/ DropReturned
    \/ SubscriptionClosed
    \/ Dispatch
    \/ HandlerReturn
    \/ ReceiveShutdown
    \/ ReceiveClosed
    \/ Return

\* the life of the listener task.  A handler that has been entered returns;
\* select! picks among its ready arms at random, so the shutdown arm, ready
\* again and again, is taken in the end
SpecListener ==
    /\ InitListener
    /\ [][NextListener]_vars
    /\ WF_vars(HandlerReturn)
    /\ WF_vars(Return)
    /\ SF_vars(ReceiveShutdown)

-----------------------------------------------------------------------------
(* Properties *)

\* C1 (expiry honored): a lookup whose cache read happens at clock reading
\* `now` never answers with a record whose expires_at <= now, and when the
\* key holds an expired record the lookup answers NotFound and the key is
\* gone from Redis afterwards (no upstream is configured in these runs).
C1_ExpiryHonored ==
    [][last'.op = "lookup" =>
          /\ last'.resp.ok =>
                \/ last'.resp.value.expires_at = None
                \/ Unwrap(last'.resp.value.expires_at) > now
          /\ (last'.found # None /\ Expired(Unwrap(last'.found), now)) =>
                /\ last'.resp.kind = "not_found"
                /\ build_redis_key(last'.req.key) \notin DOMAIN redis'
                /\ Held(redis', last'.req.key) = None]_vars

\* a lookup has found an expired record still held by Redis and removed it
C1_Witness ==
    /\ last.op = "lookup"
    /\ last.found # None
    /\ Expired(Unwrap(last.found), now)
    /\ last.resp.kind = "not_found"
    /\ Held(redis, last.req.key) = None

\* C5 (round trip): while a key still holds the record a successful
\* store(k, a) wrote and that record has not expired, a lookup(k) (no api
\* key, no tenant or the artifact's own) answers with an artifact equal to a
\* in every field; its ttl_remaining_seconds is absent exactly when the
\* record has no expires_at and otherwise at most the TTL the store used.
C5_RoundTrip ==
    [][(/\ last'.op = "lookup"
        /\ last'.req.key \in DOMAIN stored
        /\ last'.req.api_key = None
        /\ last'.req.tenant \in {None, Some(stored[last'.req.key].artifact.policy.tenant)}
        /\ ~Expired(Unwrap(last'.found), now)) =>
          /\ last'.resp.ok
          /\ last'.resp.value.artifact = stored[last'.req.key].artifact
          /\ (last'.resp.value.ttl_remaining_seconds = None)
                <=> (Unwrap(last'.found).expires_at = None)
          /\ last'.resp.value.ttl_remaining_seconds # None =>
                Unwrap(last'.resp.value.ttl_remaining_seconds)
                    <= stored[last'.req.key].ttl]_vars

\* a lookup has returned the fully populated artifact a store wrote, with a
\* remaining TTL
C5_Witness ==
    /\ last.op = "lookup"
    /\ last.resp.ok
    /\ last.req.key \in DOMAIN stored
    /\ stored[last.req.key].artifact = RichArtifact
    /\ last.resp.value.artifact = RichArtifact
    /\ last.resp.value.ttl_remaining_seconds # None

\* C6 as claimed: a successful store uses ttl_seconds when it is present and
\* > 0 and default_ttl_seconds otherwise; its expires_at is none when that
\* TTL is 0 and the handler's clock reading plus that TTL otherwise.
C6_EffectiveTtlAsClaimed ==
    [][(last'.op = "store" /\ last'.resp.ok) =>
          LET ttl == last'.req.artifact.ttl_seconds
              effective == IF ttl # None /\ Unwrap(ttl) > 0 THEN Unwrap(ttl)
                           ELSE default_ttl_seconds
          IN  last'.resp.value.expires_at =
                  IF effective = 0 THEN None ELSE Some(now + Seconds(effective))]_vars

\* C2 (tenant isolation): when the key holds a non-expired record of tenant
\* T1, a lookup that names another tenant answers NotFound("cache miss"),
\* adds one to cache_misses and nothing to cache_hits, and leaves Redis as
\* it was.
C2_TenantIsolation ==
    [][(/\ last'.op = "lookup"
        /\ last'.found # None
        /\ ~Expired(Unwrap(last'.found), now)
        /\ last'.req.tenant # None
        /\ Unwrap(last'.req.tenant) # Unwrap(last'.found).artifact.policy.tenant) =>
          /\ last'.resp = NotFound(<<"cache miss">>)
          /\ metrics'.cache_misses = metrics.cache_misses + 1
          /\ metrics'.cache_hits = metrics.cache_hits
          /\ redis' = redis]_vars

\* a lookup naming tenant t2 has missed on a live record of tenant t1
C2_Witness ==
    /\ last.op = "lookup"
    /\ last.found # None
    /\ ~Expired(Unwrap(last.found), now)
    /\ Unwrap(last.found).artifact.policy.tenant = T1
    /\ last.req.tenant = Some(T2)
    /\ last.resp = NotFound(<<"cache miss">>)
    /\ Held(redis, last.req.key) = last.found
    /\ metrics.cache_misses > 0

\* C3 (no disclosure): with no upstream, the response of a lookup that names
\* tenant T2, with any api key or none, is the same whether the key holds a
\* record of another tenant or holds nothing.
C3_MismatchNotDisclosed ==
    ~upstream =>
        \A key \in TenantInputs.keys, tenant \in TenantInputs.tenants \ {None},
           api_key \in TenantInputs.api_keys :
            (/\ Held(redis, key) # None
             /\ Unwrap(Held(redis, key)).artifact.policy.tenant # Unwrap(tenant)) =>
                handle_lookup(redis, now, metrics, key, tenant, api_key,
                              [kind |-> "none"], 0).resp
                = handle_lookup(Remove(redis, build_redis_key(key)), now, metrics,
                                key, tenant, api_key, [kind |-> "none"], 0).resp

\* a lookup that named the wrong tenant and presented an api key has been
\* answered exactly as a lookup of an absent key
C3_Witness ==
    /\ ~upstream
    /\ last.op = "lookup"
    /\ last.found # None
    /\ ~Expired(Unwrap(last.found), now)
    /\ last.req.tenant # None
    /\ Unwrap(last.req.tenant) # Unwrap(last.found).artifact.policy.tenant
    /\ last.req.api_key # None
    /\ last.resp = handle_lookup(EmptyRedis, now, metrics, last.req.key,
                                 last.req.tenant, last.req.api_key,
                                 [kind |-> "none"], 0).resp

\* C4 (policy ceiling): a store for a tenant registered with max_ttl_seconds
\* = M whose ttl_seconds exceeds M is answered BadRequest (400) and changes
\* neither Redis nor cache_stores.
C4_TtlCeiling ==
    [][(/\ last'.op = "store"
        /\ last'.req.artifact.policy.tenant \in DOMAIN tenants
        /\ tenants[last'.req.artifact.policy.tenant].max_ttl_seconds # None
        /\ last'.req.artifact.ttl_seconds # None
        /\ Unwrap(last'.req.artifact.ttl_seconds)
              > Unwrap(tenants[last'.req.artifact.policy.tenant].max_ttl_seconds)) =>
          /\ last'.resp.kind = "bad_request"
          /\ StatusCode(last'.resp.kind) = 400
          /\ redis' = redis
          /\ metrics'.cache_stores = metrics.cache_stores]_vars

\* a store above t1's ceiling, with t1's valid api key, has been rejected by
\* validate_ttl while the key holds an earlier record
C4_Witness ==
    /\ last.op = "store"
    /\ last.req.artifact.policy.tenant = T1
    /\ last.req.artifact.ttl_seconds = Some(2)
    /\ last.req.api_key = Some(ApiKey1)
    /\ last.resp = BadRequest(<<"TTL", 2, "exceeds maximum allowed", 1,
                                "for tenant", T1>>)
    /\ Held(redis, last.req.key) # None

\* C7 (purge by provenance): a successful purge(provenance_hash = h) removes
\* every record held whose artifact.hash is h or whose provenance carries h,
\* leaves every other record as it was, and returns the number of records
\* removed.
C7_ProvenancePurgeExact ==
    [][(/\ last'.op = "purge"
        /\ last'.req.keys = <<>>
        /\ last'.req.tenant = None
        /\ last'.req.provenance_hash # None
        /\ last'.resp.ok) =>
          /\ \A pk \in DOMAIN redis :
                IF has_hash(CachedArtifactFromJson(redis[pk].json),
                            Unwrap(last'.req.provenance_hash))
                THEN pk \notin DOMAIN redis'
                ELSE pk \in DOMAIN redis' /\ redis'[pk] = redis[pk]
          /\ last'.resp.value.purged = Cardinality(DOMAIN redis \ DOMAIN redis')]_vars

\* C8 (purge precedence): a purge with no discriminator is answered
\* BadRequest and changes nothing; a purge with more than one discriminator
\* that is served runs the one mode chosen by keys, then tenant: it removes
\* the records its winning discriminator selects and leaves every other
\* record, those the losing discriminators select included; a purge that is
\* refused changes nothing.
C8_PurgePrecedence ==
    [][last'.op = "purge" =>
          LET q == last'.req
              supplied == (IF q.keys # <<>> THEN 1 ELSE 0)
                          + (IF q.tenant # None THEN 1 ELSE 0)
                          + (IF q.provenance_hash # None THEN 1 ELSE 0)
              selected(pk) ==
                  IF q.keys # <<>>
                  THEN \E i \in DOMAIN q.keys : pk = build_redis_key(q.keys[i])
                  ELSE GlobMatch(Unwrap(q.tenant) \o <<":", "*">>,
                                 StripPrefix(pk, Prefix))
          IN  /\ supplied = 0 =>
                    /\ last'.resp = BadRequest(
                           <<"must specify keys, tenant, or provenance_hash">>)
                    /\ redis' = redis
              /\ ~last'.resp.ok => redis' = redis
              /\ (supplied > 1 /\ last'.resp.ok) =>
                    \A pk \in DOMAIN redis :
                        IF selected(pk) THEN pk \notin DOMAIN redis'
                        ELSE pk \in DOMAIN redis' /\ redis'[pk] = redis[pk]]_vars

\* a purge naming the key t2:c, the tenant t1 and the hash h1 has removed
\* t2:c alone: t1:a, which the tenant and the hash both select, is held
C8_Witness ==
    /\ last.op = "purge"
    /\ last.req.keys = <<K_t2c, K_t2c>>
    /\ last.req.tenant = Some(T1)
    /\ last.req.provenance_hash = Some(H1)
    /\ last.resp = Ok([purged |-> 1])
    /\ Held(redis, K_t2c) = None
    /\ Held(redis, K_t1a) # None
    /\ has_hash(Unwrap(Held(redis, K_t1a)), H1)

\* C9 (purge by tenant): a successful purge(tenant = T) removes every record
\* whose logical key matches T:*, returns their number, and leaves every
\* record whose key does not begin with "T:" as it was, whatever string T is.
C9_TenantPurgeFrame ==
    [][(/\ last'.op = "purge"
        /\ last'.req.keys = <<>>
        /\ last'.req.tenant # None
        /\ last'.resp.ok) =>
          LET pattern == Unwrap(last'.req.tenant) \o <<":", "*">>
              start == Unwrap(last'.req.tenant) \o <<":">>
          IN  /\ \A pk \in DOMAIN redis :
                    /\ GlobMatch(pattern, StripPrefix(pk, Prefix)) =>
                          pk \notin DOMAIN redis'
                    /\ ~HasPrefix(StripPrefix(pk, Prefix), start) =>
                          pk \in DOMAIN redis' /\ redis'[pk] = redis[pk]
              /\ last'.resp.value.purged
                   = Cardinality({pk \in DOMAIN redis :
                                     GlobMatch(pattern, StripPrefix(pk, Prefix))})]_vars

\* C10 (event idempotence): when the SUPERSEDED_BY, REVOKE_CAPSULE or
\* INVALIDATE_TENANT event just handled is delivered again, the second
\* delivery leaves Redis as the first left it and ends without an error.
C10_EventIdempotent ==
    [][(/\ last.op = "event"
        /\ last'.op = "event"
        /\ last'.req.payload = last.req.payload
        /\ parse_event(last.req.payload) # None
        /\ last.req.payload.o.type.s # <<"UPDATE_TTL">>) =>
          /\ redis' = redis
          /\ last'.resp.ok]_vars

\* a tenant invalidation has been delivered twice in a row; nothing of t1 is
\* held and the record of t2 is
C10_Witness ==
    /\ last.op = "event"
    /\ last.found = Some(last.req.payload)
    /\ last.req.payload = InvalidateTenant(T1)
    /\ last.resp.ok
    /\ Held(redis, K_t1a) = None
    /\ Held(redis, K_t1b) = None
    /\ Held(redis, K_t2c) # None

\* C11 (upstream non-poisoning): when a lookup finds no live record and the
\* upstream call fails, the response is Internal (500), upstream_failures
\* grows by one, nothing is written to Redis, and a lookup of the same key
\* right after is still a miss.
C11_UpstreamErrorNoWrite ==
    [][(/\ last'.op = "lookup"
        /\ upstream
        /\ ~IsBlank(last'.req.key)
        /\ (last'.found = None \/ Expired(Unwrap(last'.found), now))
        /\ last'.req.up.kind = "err") =>
          /\ last'.resp.kind = "internal"
          /\ StatusCode(last'.resp.kind) = 500
          /\ metrics'.upstream_failures = metrics.upstream_failures + 1
          /\ metrics'.cache_stores = metrics.cache_stores
          /\ \A pk \in DOMAIN redis' : pk \in DOMAIN redis /\ redis'[pk] = redis[pk]
          /\ Held(redis', last'.req.key) = None
          /\ handle_lookup(redis', now', metrics', last'.req.key, last'.req.tenant,
                           last'.req.api_key, [kind |-> "none"], 0).resp
             = NotFound(<<"cache miss">>)]_vars

\* a lookup has been answered Internal after the upstream call failed, and
\* the key holds nothing
C11_Witness ==
    /\ upstream
    /\ last.op = "lookup"
    /\ last.req.up.kind = "err"
    /\ last.resp.kind = "internal"
    /\ metrics.upstream_failures = 1
    /\ metrics.upstream_requests = 1
    /\ Held(redis, last.req.key) = None

C13_HydrationExpiry ==
    [][(/\ last'.op = "lookup"
        /\ upstream
        /\ ~IsBlank(last'.req.key)
        /\ (last'.found = None \/ Expired(Unwrap(last'.found), now))
        /\ last'.req.up.kind = "some"
        /\ (\/ last'.req.tenant = None
            \/ Unwrap(last'.req.tenant) = last'.req.up.record.artifact.policy.tenant)
        /\ last'.req.api_key = None) =>
          LET u == last'.req.up.record
              candidate ==
                  IF u.expires_at # None /\ Unwrap(u.expires_at) > now
                  THEN u.expires_at
                  ELSE IF u.ttl_remaining_seconds # None
                          /\ Unwrap(u.ttl_remaining_seconds) > 0
                  THEN Some(now + Seconds(Unwrap(u.ttl_remaining_seconds)))
                  ELSE IF u.artifact.ttl_seconds # None
                          /\ Unwrap(u.artifact.ttl_seconds) > 0
                  THEN Some(now + Seconds(Unwrap(u.artifact.ttl_seconds)))
                  ELSE IF default_ttl_seconds > 0
                  THEN Some(now + Seconds(default_ttl_seconds))
                  ELSE None
          IN  /\ Held(redis', last'.req.key) # None
              /\ Unwrap(Held(redis', last'.req.key)).expires_at = candidate]_vars

\* C14 (I1): every record held in Redis, written by store or by hydration,
\* has a non-empty artifact.policy.tenant and a non-empty artifact.hash.
C14_TenantAndHashPresent ==
    \A pk \in DOMAIN redis :
        /\ CachedArtifactFromJson(redis[pk].json).artifact.policy.tenant # <<>>
        /\ CachedArtifactFromJson(redis[pk].json).artifact.hash # <<>>

\* C15 (I2): every record held in Redis that has an expires_at has
\* stored_at <= expires_at, whether store or hydration wrote it.
C15_StoredBeforeExpiry ==
    \A pk \in DOMAIN redis :
        LET record == CachedArtifactFromJson(redis[pk].json)
        IN  record.expires_at # None => record.stored_at <= Unwrap(record.expires_at)

\* a hydration has just cached the record with the expires_at upstream
\* gave, which lies after the instant of the write
C15_Witness ==
    /\ last.op = "lookup"
    /\ last.wrote
    /\ last.req.up.record.expires_at # None
    /\ Held(redis, last.req.key) # None
    /\ Unwrap(Held(redis, last.req.key)).expires_at = last.req.up.record.expires_at
    /\ Unwrap(Held(redis, last.req.key)).stored_at
         < Unwrap(Unwrap(Held(redis, last.req.key)).expires_at)

\* C16 (I4): every record held in Redis whose artifact.ttl_seconds is set
\* has an expires_at, and expires_at - stored_at equals ttl_seconds in whole
\* seconds, whether store or hydration wrote it.  The part of a second that
\* passes between the handler's clock reading and the one of RedisCache::set
\* is allowed for: the difference is rounded up to whole seconds.
C16_TtlMatchesExpiry ==
    \A pk \in DOMAIN redis :
        LET record == CachedArtifactFromJson(redis[pk].json)
        IN  record.artifact.ttl_seconds # None =>
              /\ record.expires_at # None
              /\ NumSeconds(Unwrap(record.expires_at) - record.stored_at
                            + TicksPerSec - 1)
                   = Unwrap(record.artifact.ttl_seconds)

\* C17 (api keys), as amended: validate_api_key succeeds exactly when the
\* tenant is registered and the key is that tenant's; a store, lookup or
\* purge whose key fails it is answered BadRequest (400) with "Invalid API
\* key" or "Unknown tenant", writes nothing to Redis, and removes nothing
\* but a record of the looked-up key that had already expired.
C17_ApiKeyRejection ==
    [][(/\ last'.op \in {"store", "lookup", "purge"}
        /\ last'.req.api_key # None) =>
          LET q == last'.req
              live == last'.op = "lookup" /\ last'.found # None
                      /\ ~Expired(Unwrap(last'.found), now)
              \* the tenant the handler validates the key against
              tid == CASE last'.op = "store" -> q.artifact.policy.tenant
                       [] last'.op = "purge" -> UnwrapOr(q.tenant, <<>>)
                       [] last'.op = "lookup" ->
                            IF live THEN Unwrap(last'.found).artifact.policy.tenant
                            ELSE IF q.up.kind = "some"
                            THEN q.up.record.artifact.policy.tenant
                            ELSE <<>>
              \* whether the handler gets as far as validating it
              reached ==
                  CASE last'.op = "store" ->
                         ~IsBlank(q.key) /\ ~IsBlank(q.artifact.hash)
                    [] last'.op = "purge" -> q.tenant # None
                    [] last'.op = "lookup" ->
                         /\ ~IsBlank(q.key)
                         /\ live \/ (upstream /\ q.up.kind = "some")
                         /\ q.tenant = None \/ Unwrap(q.tenant) = tid
              valid == tid \in DOMAIN tenants
                       /\ tenants[tid].api_key = Unwrap(q.api_key)
              rejection == IF tid \in DOMAIN tenants
                           THEN BadRequest(<<"Invalid API key">>)
                           ELSE BadRequest(<<"Unknown tenant">>)
          IN  /\ (reached /\ ~valid) =>
                    /\ last'.resp = rejection
                    /\ StatusCode(last'.resp.kind) = 400
                    /\ metrics'.cache_stores = metrics.cache_stores
                    /\ metrics'.cache_purges = metrics.cache_purges
                    /\ \A pk \in DOMAIN redis' :
                          pk \in DOMAIN redis /\ redis'[pk] = redis[pk]
                    /\ \A pk \in DOMAIN redis \ DOMAIN redis' :
                          /\ last'.op = "lookup"
                          /\ pk = build_redis_key(q.key)
                          /\ Expired(CachedArtifactFromJson(redis[pk].json), now)
              /\ (reached /\ valid) =>
                    /\ last'.resp.msg # <<"Invalid API key">>
                    /\ last'.resp.msg # <<"Unknown tenant">>]_vars

\* a lookup with a wrong key has been refused with 400 on the hydration
\* path, after RedisCache::get dropped the expired record the key held
C17_Witness ==
    /\ last.op = "lookup"
    /\ last.req.api_key = Some(WrongKey)
    /\ last.req.up.kind = "some"
    /\ last.resp = BadRequest(<<"Invalid API key">>)
    /\ last.found # None
    /\ Held(redis, last.req.key) = None
    /\ metrics.upstream_requests = 1

\* C17 as claimed: the same, the refused store, lookup or purge performing
\* no cache write and no delete at all.
C17_RejectionTouchesNothing ==
    [][(/\ last'.op \in {"store", "lookup", "purge"}
        /\ last'.req.api_key # None) =>
          LET q == last'.req
              live == last'.op = "lookup" /\ last'.found # None
                      /\ ~Expired(Unwrap(last'.found), now)
              \* the tenant the handler validates the key against
              tid == CASE last'.op = "store" -> q.artifact.policy.tenant
                       [] last'.op = "purge" -> UnwrapOr(q.tenant, <<>>)
                       [] last'.op = "lookup" ->
                            IF live THEN Unwrap(last'.found).artifact.policy.tenant
                            ELSE IF q.up.kind = "some"
                            THEN q.up.record.artifact.policy.tenant
                            ELSE <<>>
              \* whether the handler gets as far as validating it
              reached ==
                  CASE last'.op = "store" ->
                         ~IsBlank(q.key) /\ ~IsBlank(q.artifact.hash)
                    [] last'.op = "purge" -> q.tenant # None
                    [] last'.op = "lookup" ->
                         /\ ~IsBlank(q.key)
                         /\ live \/ (upstream /\ q.up.kind = "some")
                         /\ q.tenant = None \/ Unwrap(q.tenant) = tid
              valid == tid \in DOMAIN tenants
                       /\ tenants[tid].api_key = Unwrap(q.api_key)
              rejection == IF tid \in DOMAIN tenants
                           THEN BadRequest(<<"Invalid API key">>)
                           ELSE BadRequest(<<"Unknown tenant">>)
          IN  /\ (reached /\ ~valid) =>
                    /\ last'.resp = rejection
                    /\ StatusCode(last'.resp.kind) = 400
                    /\ metrics'.cache_stores = metrics.cache_stores
                    /\ metrics'.cache_purges = metrics.cache_purges
                    /\ redis' = redis
              /\ (reached /\ valid) =>
                    /\ last'.resp.msg # <<"Invalid API key">>
                    /\ last'.resp.msg # <<"Unknown tenant">>]_vars

\* C18 (order of the store checks): the response of a store is the error of
\* the first check that fails, in the order blank key, blank artifact.hash,
\* validate_api_key (only when an api key was presented), validate_ttl,
\* validate_region, validate_compliance; and only a store that passes all
\* of them reaches cache.set, so a store that fails one leaves Redis and the
\* store counter as they were.
C18_StoreCheckOrder ==
    [][last'.op = "store" =>
          LET q == last'.req
              tid == q.artifact.policy.tenant
              auth == IF q.api_key # None
                      THEN validate_api_key(tid, Unwrap(q.api_key))
                      ELSE Ok(None)
              ttl_ok == validate_ttl(tid, q.artifact.ttl_seconds)
              region_ok == validate_region(tid, q.artifact.policy.region)
              compliance_ok == validate_compliance(tid, q.artifact.policy.phi,
                                                   q.artifact.policy.pii)
              \* the error of the first failing check, None if all pass
              first ==
                  IF IsBlank(q.key) THEN Some(BadRequest(<<"key is required">>))
                  ELSE IF IsBlank(q.artifact.hash)
                       THEN Some(BadRequest(<<"artifact hash is required">>))
                  ELSE IF ~auth.ok THEN Some(auth)
                  ELSE IF ~ttl_ok.ok THEN Some(ttl_ok)
                  ELSE IF ~region_ok.ok THEN Some(region_ok)
                  ELSE IF ~compliance_ok.ok THEN Some(compliance_ok)
                  ELSE None
          IN  IF first # None
              THEN /\ last'.resp = Unwrap(first)
                   /\ redis' = redis
                   /\ metrics' = metrics
              ELSE /\ last'.resp.ok
                   /\ Held(redis', q.key) # None
                   /\ Unwrap(Held(redis', q.key)).artifact = q.artifact
                   /\ metrics'.cache_stores = metrics.cache_stores + 1]_vars

\* a store that fails the api key, the TTL ceiling and the region check at
\* once has been answered with the api key error
C18_Witness ==
    /\ last.op = "store"
    /\ tenants[T1].allowed_regions # <<>>
    /\ last.req.artifact.policy.tenant = T1
    /\ ~IsBlank(last.req.key) /\ ~IsBlank(last.req.artifact.hash)
    /\ last.req.api_key = Some(WrongKey)
    /\ ~validate_ttl(T1, last.req.artifact.ttl_seconds).ok
    /\ ~validate_region(T1, last.req.artifact.policy.region).ok
    /\ last.resp = BadRequest(<<"Invalid API key">>)

\* C19 (validate_region): for every tenant id and optional region,
\* validate_region fails exactly when the tenant is registered, its
\* allowed_regions list is non-empty, a region is supplied and the region is
\* not in the list; a store is refused with the region error only in that
\* case, and a store that is accepted is never in it.
C19_RegionRule ==
    LET rejects(tid, region) ==
            /\ tid \in DOMAIN tenants
            /\ Len(tenants[tid].allowed_regions) > 0
            /\ region # None
            /\ \A i \in 1..Len(tenants[tid].allowed_regions) :
                  tenants[tid].allowed_regions[i] # Unwrap(region)
    IN  /\ \A tid \in {T1, T2}, region \in {None, Some(EU), Some(US), Some(AP)} :
              validate_region(tid, region).ok <=> ~rejects(tid, region)
        /\ last.op = "store" =>
              LET tid == last.req.artifact.policy.tenant
                  region == last.req.artifact.policy.region
              IN  /\ (last.resp.kind = "bad_request" /\ Len(last.resp.msg) > 0
                      /\ last.resp.msg[1] = "Region") => rejects(tid, region)
                  /\ last.resp.ok => ~rejects(tid, region)

\* a store naming a region outside t1's list has been refused with the
\* region error, every earlier check having passed
C19_Witness ==
    /\ last.op = "store"
    /\ tenants[T1].allowed_regions = <<EU, US>>
    /\ last.req.artifact.policy.region = Some(AP)
    /\ last.req.api_key = Some(ApiKey1)
    /\ last.resp = BadRequest(<<"Region", AP, "not allowed for tenant", T1>>)
    /\ redis = EmptyRedis

\* C20 (SUPERSEDED_BY): handling SUPERSEDED_BY(old_hash, new_hash, tenant)
\* removes every record whose logical key begins with "tenant:" and whose
\* artifact.hash is old_hash or whose provenance contains old_hash, after
\* which RedisCache::get of that key finds nothing, and leaves every other
\* live record (another tenant's prefix, or no matching hash) as it was,
\* whatever string tenant is.
C20_SupersededExact ==
    [][(/\ last'.op = "event"
        /\ parse_event(last'.req.payload) # None
        /\ last'.req.payload.o.type.s = <<"SUPERSEDED_BY">>) =>
          LET event == last'.req.payload.o
              start == event.tenant.s \o <<":">>
          IN  /\ DOMAIN redis' \subseteq DOMAIN redis
              /\ \A pk \in DOMAIN redis :
                    LET key == StripPrefix(pk, Prefix)
                        record == CachedArtifactFromJson(redis[pk].json)
                        matching == /\ HasPrefix(key, start)
                                    /\ has_hash(record, event.old_hash.s)
                    IN  /\ matching =>
                              /\ pk \notin DOMAIN redis'
                              /\ cache_get(redis', now, key).value = None
                        /\ (~matching /\ ~Expired(record, now)) =>
                              /\ pk \in DOMAIN redis'
                              /\ redis'[pk] = redis[pk]]_vars

\* C21 (REVOKE_CAPSULE): handling REVOKE_CAPSULE(capsule_id, tenant) removes
\* exactly the records whose logical key begins with "tenant:" and that
\* have a provenance entry whose source contains capsule_id, and leaves
\* every other live record as it was, whatever string tenant is.
C21_RevokeExact ==
    [][(/\ last'.op = "event"
        /\ parse_event(last'.req.payload) # None
        /\ last'.req.payload.o.type.s = <<"REVOKE_CAPSULE">>) =>
          LET event == last'.req.payload.o
              start == event.tenant.s \o <<":">>
          IN  /\ DOMAIN redis' \subseteq DOMAIN redis
              /\ \A pk \in DOMAIN redis :
                    LET key == StripPrefix(pk, Prefix)
                        record == CachedArtifactFromJson(redis[pk].json)
                        matching == /\ HasPrefix(key, start)
                                    /\ has_capsule(record, event.capsule_id.s)
                    IN  /\ matching => pk \notin DOMAIN redis'
                        /\ (~matching /\ ~Expired(record, now)) =>
                              /\ pk \in DOMAIN redis'
                              /\ redis'[pk] = redis[pk]]_vars

C23_ListenerSurvives ==
    [][last'.op = "event" =>
          LET payload == last'.req.payload
              malformed == payload = NonUtf8 \/ parse_event(payload) = None
          IN  /\ ~last'.resp.ok => listener'.pc = "subscribed"
              /\ malformed => (~last'.resp.ok /\ redis' = redis)
              /\ (~malformed /\ last'.req.backend_up) =>
                    /\ last'.resp.ok
                    /\ listener'.pc = "subscribed"
                    /\ payload.o.type.s = <<"INVALIDATE_TENANT">> =>
                          \A pk \in DOMAIN redis' :
                              ~HasPrefix(StripPrefix(pk, Prefix),
                                         payload.o.tenant.s \o <<":">>)]_vars

\* after an event was logged as failed, a tenant invalidation has been
\* handled and has removed the tenant's records
C23_Witness ==
    /\ last.op = "event"
    /\ listener.errors > 0
    /\ last.req.payload = InvalidateTenant(T1)
    /\ last.resp.ok
    /\ last.applied
    /\ Held(redis, K_t1a) = None
    /\ listener.pc = "subscribed"

\* C24 (listener state machine): the listener moves only along
\* Initializing -> Subscribed -> Draining -> Stopped, a handler in flight
\* counting as Subscribed: no message is dispatched once the shutdown arm
\* has been taken, Stopped is not entered while a handler is in flight, and
\* nothing leaves Stopped.
C24_ListenerPath ==
    [][LET phase(l) == IF l.pc = "handling" THEN "subscribed" ELSE l.pc
       IN  /\ \/ phase(listener') = phase(listener)
              \/ <<phase(listener), phase(listener')>>
                    \in {<<"initializing", "subscribed">>,
                         <<"subscribed", "draining">>,
                         <<"draining", "stopped">>}
           /\ listener.pc \in {"draining", "stopped"} => listener'.pc # "handling"
           /\ listener.pc = "handling" => listener'.pc # "stopped"]_vars

\* C25 (runs until shutdown): the listener leaves its loop only after a
\* shutdown signal has been sent on its control channel, and once one has
\* been sent it stops in the end.
C25_RunsUntilShutdown ==
    /\ [](listener.pc \in {"draining", "stopped"} => listener.sent)
    /\ (listener.sent ~> listener.pc = "stopped")

\* C26 (concurrent hydration): lookups of one key that miss are not
\* coalesced: each issues its own upstream call, and each that gets a
\* record writes it, so the counters equal the numbers of such lookups;
\* and once all of them have finished the key holds the record written
\* last, whose artifact is the one upstream gave to that writer (hence the
\* common one when upstream gave all the same).
C26_NotCoalesced ==
    LET ids == 1..MaxRequests
        writers == {i \in ids : requests[i].seq > 0}
    IN  /\ metrics.upstream_requests = Cardinality({i \in ids : requests[i].missed})
        /\ metrics.cache_stores = Cardinality(writers)
        /\ \A i \in ids :
              (requests[i].pc = "done" /\ requests[i].up # None) => i \in writers
        /\ ((\A i \in ids : requests[i].pc = "done") /\ writers # {}) =>
              LET final == CHOOSE i \in writers :
                               \A j \in writers : requests[j].seq <= requests[i].seq
              IN  /\ Held(redis, K_t1a) # None
                  /\ Unwrap(Held(redis, K_t1a)).artifact
                        = Unwrap(requests[final].up).artifact
                  /\ Unwrap(Held(redis, K_t1a)).key = K_t1a
                  /\ Unwrap(requests[final].resp).value.expires_at
                        = Unwrap(Held(redis, K_t1a)).expires_at
                  /\ (\A i, j \in writers :
                          Unwrap(requests[i].up).artifact
                             = Unwrap(requests[j].up).artifact) =>
                        \A i \in writers :
                            Unwrap(Held(redis, K_t1a)).artifact
                               = Unwrap(requests[i].up).artifact

\* two lookups missed together, upstream gave them different artifacts, and
\* both have written, the second some time after the first
C26_Witness ==
    /\ \A i \in 1..2 : requests[i].pc = "done" /\ requests[i].missed
    /\ requests[1].seq = 1
    /\ requests[2].seq = 2
    /\ Unwrap(requests[1].up).artifact # Unwrap(requests[2].up).artifact
    /\ metrics.upstream_requests = 2
    /\ Unwrap(Held(redis, K_t1a)).stored_at > 0
    /\ Unwrap(Held(redis, K_t1a)).artifact = Unwrap(requests[2].up).artifact

\* C27 (backend failures surface): a purge during which a backend read
\* fails is answered Internal (500), never with a success computed as if
\* the failed read had found nothing.  A read is issued for every key the
\* scan of a purge by provenance hash returns.
C27_BackendFailureSurfaced ==
    [][(/\ last'.op = "purge"
        /\ purge_mode(last'.req.keys, last'.req.tenant,
                      last'.req.provenance_hash) = "provenance"
        /\ \E k \in last'.req.failing :
              k \in scan_by_pattern(redis, <<"*">>)) =>
          /\ last'.resp.kind = "internal"
          /\ StatusCode(last'.resp.kind) = 500]_vars

\* C28 (upstream tenant mismatch): when a lookup misses and upstream
\* answers with a record whose artifact.policy.tenant differs from the
\* tenant of the query, the response is NotFound("cache miss"),
\* upstream_failures grows by one and no key of Redis is written; when the
\* tenants agree but the presented api key fails validation against the
\* upstream record's tenant, the lookup is refused and again no key is
\* written.
C28_UpstreamTenantMismatch ==
    [][(/\ last'.op = "lookup"
        /\ upstream
        /\ ~IsBlank(last'.req.key)
        /\ (last'.found = None \/ Expired(Unwrap(last'.found), now))
        /\ last'.req.up.kind = "some") =>
          LET q == last'.req
              tid == q.up.record.artifact.policy.tenant
              mismatch == q.tenant # None /\ Unwrap(q.tenant) # tid
              badkey == /\ q.api_key # None
                        /\ ~(/\ tid \in DOMAIN tenants
                             /\ tenants[tid].api_key = Unwrap(q.api_key))
              nowrite == /\ metrics'.cache_stores = metrics.cache_stores
                         /\ \A pk \in DOMAIN redis' :
                               pk \in DOMAIN redis /\ redis'[pk] = redis[pk]
          IN  /\ mismatch =>
                    /\ last'.resp = NotFound(<<"cache miss">>)
                    /\ StatusCode(last'.resp.kind) = 404
                    /\ metrics'.upstream_failures = metrics.upstream_failures + 1
                    /\ nowrite
              /\ (~mismatch /\ badkey) =>
                    /\ last'.resp.kind = "bad_request"
                    /\ metrics'.upstream_failures = metrics.upstream_failures
                    /\ nowrite]_vars

\* a lookup for tenant t1 has missed, upstream has answered with a record
\* of t2, and the lookup has ended as a miss with the key still empty
C28_Witness ==
    /\ last.op = "lookup"
    /\ last.req.tenant = Some(T1)
    /\ last.req.up.kind = "some"
    /\ last.req.up.record.artifact.policy.tenant = T2
    /\ last.resp = NotFound(<<"cache miss">>)
    /\ metrics.upstream_requests = 1
    /\ metrics.upstream_failures = 1
    /\ Held(redis, last.req.key) = None

\* C29 (native TTL of set): a set with an expires_at writes the record
\* with a native TTL of ceil(expires_at - now) seconds whenever expires_at
\* is after the clock reading of set, be it by less than a second, and
\* fails with "Artifact already expired", writing nothing, exactly when
\* expires_at is not after it.  Seen on the set a store ends with.
C29_NativeTtlCeil ==
    [][(/\ last'.op = "store"
        /\ store_expires_at(last'.req.artifact.ttl_seconds, now) # None) =>
          LET expires_at == Unwrap(store_expires_at(last'.req.artifact.ttl_seconds,
                                                    now))
              remaining == expires_at - now'
              ceil == (remaining + TicksPerSec - 1) \div TicksPerSec
              pk == build_redis_key(last'.req.key)
          IN  IF remaining > 0
              THEN /\ last'.resp.ok
                   /\ pk \in DOMAIN redis'
                   /\ redis'[pk].deadline = Some(now' + Seconds(ceil))
              ELSE /\ last'.resp = BadRequest(<<"Artifact already expired">>)
                   /\ redis' = redis]_vars

\* C30 (purged count): for every successful purge, in any mode, the purged
\* value returned is the number of records that were in Redis and that the
\* request removed, absent and repeated keys adding nothing, and the purge
\* counter grows by that value.
C30_PurgedCount ==
    [][(last'.op = "purge" /\ last'.resp.ok) =>
          /\ last'.resp.value.purged = Cardinality(DOMAIN redis \ DOMAIN redis')
          /\ metrics'.cache_purges = metrics.cache_purges + last'.resp.value.purged]_vars

-----------------------------------------------------------------------------
(* Handlers interleaved at their awaits: a lookup whose RedisCache::get    *)
(* has read an expired record and not yet deleted it, a SUPERSEDED_BY      *)
(* handler and a purge by provenance between the read of a record and its  *)
(* deletion, with stores served meanwhile.  Each slot of requests is one   *)
(* handler in flight; its field up holds what the handler keeps across its *)
(* awaits.                                                                 *)

\* inputs of the interleaved runs: one key, stores of a record with another
\* hash
RaceInputs ==
    [keys |-> {K_t1a},
     artifacts |-> {Artifact(T1, H2, <<>>, None)},
     api_keys |-> {None},
     tenants |-> {None},
     ups |-> {[kind |-> "none"]},
     lags |-> {0},
     purge_keys |-> {<<>>},
     purge_tenants |-> {None},
     purge_hashes |-> {Some(H1)},
     get_failures |-> {{}},
     events |-> {SupersededBy(H1, H2, T1)}]

\* the earlier stores of the interleaved runs: the key empty, or holding a
\* record with the hash h1, with a one-second TTL or none
RaceRuns ==
    {<<>>, <<<<K_t1a, Artifact(T1, H1, <<>>, Some(1))>>>>,
     <<<<K_t1a, Artifact(T1, H1, <<>>, None)>>>>}

InitRaces ==
    /\ now = 0
    /\ metrics = ZeroMetrics
    /\ tenants = Registry
    /\ default_ttl_seconds = 0
    /\ upstream = FALSE
    /\ listener = Listening
    /\ requests = NoRequests
    /\ last = InitLast
    /\ stored = EmptyRedis
    /\ redis \in {Preload(EmptyRedis, run) : run \in RaceRuns}

\* handle_lookup into RedisCache::get, up to the await of its delete
\* (cache.rs 88-108): the GET and the expiry test; a record that has not
\* expired, or no record, lets the handler run to its response
GetRead(i) ==
    LET held == Held(redis, K_t1a)
        o == IF held # None
             THEN lookup_hit(redis, now, metrics, Unwrap(held), None, None, 0)
             ELSE lookup_miss(redis, now, metrics, K_t1a, None, None,
                              [kind |-> "none"], 0)
    IN  /\ requests[i].pc = "idle"
        /\ IF held # None /\ Expired(Unwrap(held), now)
           THEN /\ requests' = [requests EXCEPT ![i].pc = "expiring",
                                                ![i].up = Some(Unwrap(held))]
                /\ UNCHANGED <<redis, metrics>>
           ELSE /\ requests' = [requests EXCEPT ![i].pc = "done",
                                                ![i].resp = Some(o.resp)]
                /\ redis' = o.redis
                /\ metrics' = o.metrics
        /\ RequestStep(i, "get_read")

\* the rest of RedisCache::get (cache.rs 109-110): the delete of the key,
\* whatever it holds by now, and Ok(None); the handler takes its miss branch
GetDelete(i) ==
    LET o == lookup_miss(cache_delete(redis, K_t1a).redis, now, metrics, K_t1a,
                         None, None, [kind |-> "none"], 0)
    IN  /\ requests[i].pc = "expiring"
        /\ requests' = [requests EXCEPT ![i].pc = "done", ![i].resp = Some(o.resp)]
        /\ redis' = o.redis
        /\ metrics' = o.metrics
        /\ RequestStep(i, "get_delete")

\* where a loop over scanned keys stands with the keys left
LoopAt(keys) == IF keys = <<>> THEN "done" ELSE "inspecting"

\* the SUPERSEDED_BY handler up to its loop (events.rs 156-157): the scan
SupersededScan(i) ==
    LET event == Unwrap(parse_event(SupersededBy(H1, H2, T1)))
        keys == SetToSeq(scan_by_pattern(redis, event.tenant.s \o <<":", "*">>))
    IN  /\ requests[i].pc = "idle"
        /\ listener.pc = "subscribed"
        /\ requests' = [requests EXCEPT
                           ![i].pc = LoopAt(keys),
                           ![i].up = Some([keys |-> keys, h |-> event.old_hash.s])]
        /\ UNCHANGED <<redis, metrics>>
        /\ RequestStep(i, "superseded_scan")

\* one turn of the loop up to the await of the delete (events.rs 160-169):
\* the get of the next key and the comparison of its hashes
SupersededInspect(i) ==
    LET task == Unwrap(requests[i].up)
        g == cache_get(redis, now, Head(task.keys))
        hit == g.value # None /\ has_hash(Unwrap(g.value), task.h)
    IN  /\ requests[i].pc = "inspecting"
        /\ redis' = g.redis
        /\ requests' = IF hit THEN [requests EXCEPT ![i].pc = "deleting"]
                       ELSE [requests EXCEPT
                                ![i].pc = LoopAt(Tail(task.keys)),
                                ![i].up = Some([task EXCEPT !.keys = Tail(@)])]
        /\ UNCHANGED metrics
        /\ RequestStep(i, "superseded_inspect")

\* the delete of the key that matched (events.rs 170-171)
SupersededDelete(i) ==
    LET task == Unwrap(requests[i].up)
    IN  /\ requests[i].pc = "deleting"
        /\ redis' = cache_delete(redis, Head(task.keys)).redis
        /\ requests' = [requests EXCEPT
                           ![i].pc = LoopAt(Tail(task.keys)),
                           ![i].up = Some([task EXCEPT !.keys = Tail(@)])]
        /\ UNCHANGED metrics
        /\ RequestStep(i, "superseded_delete")

\* handle_purge by provenance up to its delete_many (api.rs 306-324): the
\* scan of every key and the loop that collects the keys to purge
PurgeCollect(i) ==
    LET sc == purge_scan(redis, now, SetToSeq(scan_by_pattern(redis, <<"*">>)),
                         H1, {}, <<>>)
    IN  /\ requests[i].pc = "idle"
        /\ redis' = sc.redis
        /\ requests' = [requests EXCEPT
                           ![i].pc = "purging",
                           ![i].up = Some([keys |-> sc.to_purge, h |-> H1])]
        /\ UNCHANGED metrics
        /\ RequestStep(i, "purge_collect")

\* the delete_many of the collected keys and the response (api.rs 326-335)
PurgeDelete(i) ==
    LET task == Unwrap(requests[i].up)
        d == cache_delete_many(redis, task.keys)
    IN  /\ requests[i].pc = "purging"
        /\ redis' = d.redis
        /\ metrics' = record_cache_purge(metrics, d.deleted)
        /\ requests' = [requests EXCEPT
                           ![i].pc = "done",
                           ![i].resp = Some(Ok([purged |-> d.deleted]))]
        /\ RequestStep(i, "purge_delete")

NextRaces ==
    \/ Store(RaceInputs)
    \/ \E i \in 1..MaxRequests : GetRead(i)
    \/ \E i \in 1..MaxRequests : GetDelete(i)
    \/ \E i \in 1..MaxRequests : SupersededScan(i)
    \/ \E i \in 1..MaxRequests : SupersededInspect(i)
    \/ \E i \in 1..MaxRequests : SupersededDelete(i)
    \/ \E i \in 1..MaxRequests : PurgeCollect(i)
    \/ \E i \in 1..MaxRequests : PurgeDelete(i)
    \/ Tick(MaxStale)
    \/ BackendExpire

\* handlers interleaved with stores at the awaits between a read and a delete
SpecRaces == InitRaces /\ [][NextRaces]_vars

\* C31: the delete that RedisCache::get performs after reading an expired
\* record never removes a record that has not expired: a record written
\* under the key between the read and the delete is still held once get
\* has returned.
C31_ExpiredDeleteSparesFresh ==
    [][\A i \in 1..MaxRequests :
          (/\ requests[i].pc = "expiring"
           /\ requests'[i].pc = "done"
           /\ Held(redis, K_t1a) # None
           /\ ~Expired(Unwrap(Held(redis, K_t1a)), now))
          => Held(redis', K_t1a) = Held(redis, K_t1a)]_vars

\* C32: the SUPERSEDED_BY handler and the purge by provenance delete a key
\* only if the record it holds at the moment of the deletion carries the
\* target hash, as its own or in its provenance.
C32_DeletesOnlyMatching ==
    [][\A i \in 1..MaxRequests :
          (requests[i].pc \in {"deleting", "purging"}
           /\ requests'[i].pc # requests[i].pc)
          => \A pk \in DOMAIN redis \ DOMAIN redis' :
                 has_hash(CachedArtifactFromJson(redis[pk].json),
                          Unwrap(requests[i].up).h)]_vars

-----------------------------------------------------------------------------
(* Tenant invalidation while lookups of the tenant's key await upstream *)

\* inputs of the in-flight runs: the invalidation of tenant t1, by event and
\* by purge request
InFlightInputs ==
    [keys |-> {K_t1a},
     artifacts |-> {},
     api_keys |-> {None, Some(ApiKey1)},
     tenants |-> {None},
     ups |-> {[kind |-> "none"]},
     lags |-> {0},
     purge_keys |-> {<<>>},
     purge_tenants |-> {Some(T1)},
     purge_hashes |-> {None},
     get_failures |-> {{}},
     events |-> {InvalidateTenant(T1)}]

NextInFlight ==
    \/ \E i \in 1..MaxRequests : BeginLookup(i)
    \/ \E i \in 1..MaxRequests : UpstreamAnswers(i)
    \/ \E i \in 1..MaxRequests : FinishLookup(i)
    \/ Event(InFlightInputs)
    \/ Purge(InFlightInputs)
    \/ Tick(MaxLag)

\* lookups of one key interleaved at their awaits with invalidations of
\* the key's tenant
SpecInFlight == InitConcurrent /\ [][NextInFlight]_vars

\* C33: once an INVALIDATE_TENANT(T) event or a purge by tenant T has
\* completed, the cache holds no record under T:* that was obtained from
\* upstream before the invalidation completed: a lookup that already held
\* upstream's answer when the invalidation ran does not put that record
\* into the cache afterwards.
C33_NoRepopulation ==
    [][(/\ last.op \in {"event", "purge"}
        /\ last.resp.ok
        /\ last'.op = "finish_lookup")
       => Held(redis', K_t1a) = None]_vars

\* C34: in every reachable state every cached record whose tenant is
\* registered with a ceiling max_ttl_seconds = M has an expires_at, and it
\* lies at most M seconds after stored_at, whichever path wrote the record.
C34_CeilingOnEveryRecord ==
    \A pk \in DOMAIN redis :
        LET record == CachedArtifactFromJson(redis[pk].json)
            config == get_tenant(record.artifact.policy.tenant)
        IN  (config # None /\ Unwrap(config).max_ttl_seconds # None)
            => /\ record.expires_at # None
               /\ Unwrap(record.expires_at) - record.stored_at
                      <= Seconds(Unwrap(Unwrap(config).max_ttl_seconds))

\* C35: a lookup is answered with a cached record's artifact only if the
\* request identifies the record's tenant, by its tenant parameter or by an
\* api key valid for that tenant.
C35_RecordOnlyToItsTenant ==
    [][(/\ last'.op = "lookup"
        /\ last'.resp.ok
        /\ last'.found # None
        /\ ~last'.wrote)
       => LET tenant_id == Unwrap(last'.found).artifact.policy.tenant
          IN  \/ last'.req.tenant = Some(tenant_id)
              \/ /\ last'.req.api_key # None
                 /\ validate_api_key(tenant_id, Unwrap(last'.req.api_key)).ok]_vars

-----------------------------------------------------------------------------
(* Stores over a keyspace that already holds records of both tenants *)

\* inputs of the overwrite runs: a key under t2's prefix, an artifact of
\* each tenant, with and without an api key
OverwriteInputs ==
    [keys |-> {K_t2c},
     artifacts |-> {Artifact(T1, H1, <<>>, Some(1)), Artifact(T2, H1, <<>>, None)},
     api_keys |-> {None, Some(ApiKey1), Some(WrongKey)},
     tenants |-> {None, Some(T1)},
     ups |-> {[kind |-> "none"]},
     lags |-> {0},
     purge_keys |-> {},
     purge_tenants |-> {},
     purge_hashes |-> {},
     get_failures |-> {},
     events |-> {}]

\* the earlier stores of the overwrite runs: the key empty, or holding a
\* record of t2, with a one-second TTL or none
OverwriteRuns ==
    {<<>>, <<<<K_t2c, Artifact(T2, H2, <<>>, Some(1))>>>>,
     <<<<K_t2c, Artifact(T2, H2, <<>>, None)>>>>}

InitOverwrite ==
    /\ now = 0
    /\ metrics = ZeroMetrics
    /\ tenants = Registry
    /\ default_ttl_seconds = 0
    /\ upstream = FALSE
    /\ listener = Listening
    /\ requests = NoRequests
    /\ last = InitLast
    /\ stored = EmptyRedis
    /\ redis \in {Preload(EmptyRedis, run) : run \in OverwriteRuns}

NextOverwrite ==
    \/ Store(OverwriteInputs)
    \/ Lookup(OverwriteInputs)
    \/ Tick(MaxStale)
    \/ BackendExpire

\* stores and lookups over the records an earlier run left
SpecOverwrite == InitOverwrite /\ [][NextOverwrite]_vars

\* C36: a store never replaces a record that belongs to another tenant: if
\* the key holds a live record of one tenant, a store of an artifact of a
\* different tenant under that key leaves the record as it was.
C36_NoCrossTenantOverwrite ==
    [][(/\ last'.op = "store"
        /\ Held(redis, last'.req.key) # None
        /\ ~Expired(Unwrap(Held(redis, last'.req.key)), now)
        /\ Unwrap(Held(redis, last'.req.key)).artifact.policy.tenant
               # last'.req.artifact.policy.tenant)
       => Held(redis', last'.req.key) = Held(redis, last'.req.key)]_vars

\* C37: a purge removes only records of a tenant its api key is valid for:
\* every record a purge request deletes, in any mode, has an
\* artifact.policy.tenant that the request's api key is accepted for.
C37_PurgeOnlyAuthorised ==
    [][last'.op = "purge"
       => \A pk \in DOMAIN redis \ DOMAIN redis' :
              /\ last'.req.api_key # None
              /\ validate_api_key(
                     CachedArtifactFromJson(redis[pk].json).artifact.policy.tenant,
                     Unwrap(last'.req.api_key)).ok]_vars

\* C38: after a purge by tenant T or an INVALIDATE_TENANT(T) event has been
\* served with no other request in between, no record whose
\* artifact.policy.tenant is T is left, and every record of another tenant
\* is still there.
C38_TenantPurgeByOwner ==
    [][(\/ /\ last'.op = "purge"
           /\ last'.resp.ok
           /\ purge_mode(last'.req.keys, last'.req.tenant,
                         last'.req.provenance_hash) = "tenant"
        \/ /\ last'.op = "event"
           /\ last'.resp.ok
           /\ parse_event(last'.req.payload) # None
           /\ Unwrap(parse_event(last'.req.payload)).type.s
                  = <<"INVALIDATE_TENANT">>)
       => LET T == IF last'.op = "purge" THEN Unwrap(last'.req.tenant)
                   ELSE Unwrap(parse_event(last'.req.payload)).tenant.s
          IN  \A pk \in DOMAIN redis :
                  IF CachedArtifactFromJson(redis[pk].json).artifact.policy.tenant = T
                  THEN pk \notin DOMAIN redis'
                  ELSE pk \in DOMAIN redis' /\ redis'[pk] = redis[pk]]_vars

\* C39 as stated: every lookup with a non-blank key increments exactly one
\* of cache_hits and cache_misses, by one: cache_hits if and only if the
\* response is a 200 served from the cache, cache_misses otherwise.
C39_ExactlyOneCounter ==
    [][(last'.op = "lookup" /\ ~IsBlank(last'.req.key))
       => LET from_cache == last'.resp.ok /\ ~last'.wrote
          IN  /\ metrics'.cache_hits
                     = metrics.cache_hits + (IF from_cache THEN 1 ELSE 0)
              /\ metrics'.cache_misses
                     = metrics.cache_misses + (IF from_cache THEN 0 ELSE 1)]_vars

\* C39 (amended): a lookup with a non-blank key increments cache_hits by one
\* exactly when it is answered 200 from the cache, and cache_misses by one in
\* every other case but one: a lookup that finds a live record, names no
\* other tenant and presents an api key that is refused for the record's
\* tenant increments neither counter.
C39_HitOrMissCounted ==
    [][(last'.op = "lookup" /\ ~IsBlank(last'.req.key))
       => LET live == /\ last'.found # None
                      /\ ~Expired(Unwrap(last'.found), now)
              tenant_id == Unwrap(last'.found).artifact.policy.tenant
              refused == /\ live
                         /\ last'.req.tenant \in {None, Some(tenant_id)}
                         /\ last'.req.api_key # None
                         /\ ~validate_api_key(tenant_id,
                                              Unwrap(last'.req.api_key)).ok
              from_cache == last'.resp.ok /\ ~last'.wrote
          IN  /\ metrics'.cache_hits
                     = metrics.cache_hits + (IF from_cache THEN 1 ELSE 0)
              /\ metrics'.cache_misses
                     = metrics.cache_misses
                       + (IF from_cache \/ refused THEN 0 ELSE 1)
              /\ refused => ~last'.resp.ok /\ ~from_cache]_vars

\* a lookup of a live record of t1 was refused for its api key, and neither
\* counter has moved
C39_Witness ==
    /\ last.op = "lookup"
    /\ last.found # None
    /\ ~Expired(Unwrap(last.found), now)
    /\ last.req.api_key = Some(WrongKey)
    /\ last.resp = BadRequest(<<"Invalid API key">>)
    /\ metrics.cache_hits = 0
    /\ metrics.cache_misses = 0

-----------------------------------------------------------------------------
(* The tenant registry written while validations wait for its lock *)

ApiKey2 == <<"k", "2">>

\* PolicyEngine::new: no tenant registered
NoTenants == [x \in {} |-> None]

\* the configurations submitted to the registry: t1 with its key and ceiling
\* changed or as in Registry, and t2
RegistryInputs ==
    {TenantConfig(T1, ApiKey1, Some(1)), TenantConfig(T1, ApiKey2, Some(2)),
     TenantConfig(T2, ApiKey1, None)}

\* the lists given to load_tenants: two tenants, and one tenant twice
RegistryLoads ==
    {<<TenantConfig(T1, ApiKey1, Some(1)), TenantConfig(T2, ApiKey1, None)>>,
     <<TenantConfig(T1, ApiKey1, Some(1)), TenantConfig(T1, ApiKey2, Some(2))>>}

\* the validations requested: an api key, or a TTL of two seconds
ValidationInputs ==
    {[kind |-> "api_key", tenant_id |-> T1, api_key |-> ApiKey1, ttl_seconds |-> None],
     [kind |-> "api_key", tenant_id |-> T2, api_key |-> ApiKey2, ttl_seconds |-> None],
     [kind |-> "ttl", tenant_id |-> T1, api_key |-> BlankStr,
      ttl_seconds |-> Some(2)]}

\* the configuration a write of list leaves for tenant id, if it has one
RECURSIVE Submitted(_, _)
Submitted(list, id) ==
    IF list = <<>> THEN None
    ELSE IF list[Len(list)].tenant_id = id THEN Some(list[Len(list)])
    ELSE Submitted(SubSeq(list, 1, Len(list) - 1), id)

\* the validations that wait for the lock while list is written have one
\* more configuration they may come to read
Observed(reqs, list) ==
    [i \in DOMAIN reqs |->
        IF reqs[i].pc = "waiting"
           /\ Submitted(list, Unwrap(reqs[i].up).tenant_id) # None
        THEN [reqs[i] EXCEPT
                 !.up = Some([Unwrap(@) EXCEPT
                                 !.seen = @ \cup {Submitted(list,
                                                   Unwrap(reqs[i].up).tenant_id)}])]
        ELSE reqs[i]]

\* what a write of the registry leaves besides the map itself
RegistryWrite(op, list) ==
    /\ requests' = Observed(requests, list)
    /\ last' = [op |-> op, resp |-> Ok(None), found |-> None,
                req |-> [configs |-> list]]
    /\ UNCHANGED <<redis, now, metrics, default_ttl_seconds, upstream, listener,
                   stored>>

\* PolicyEngine::add_tenant
AddTenant ==
    \E c \in RegistryInputs :
        /\ tenants' = add_tenant(tenants, c)
        /\ RegistryWrite("add_tenant", <<c>>)

\* PolicyEngine::load_tenants
LoadTenants ==
    \E list \in RegistryLoads :
        /\ tenants' = load_tenants(tenants, list)
        /\ RegistryWrite("load_tenants", list)

\* a handler calls validate_api_key or validate_ttl, which awaits the read
\* lock of the registry
ValidateBegin(i) ==
    \E v \in ValidationInputs :
        /\ requests[i].pc = "idle"
        /\ requests' = [requests EXCEPT
                           ![i].pc = "waiting",
                           ![i].up = Some([kind |-> v.kind,
                                           tenant_id |-> v.tenant_id,
                                           api_key |-> v.api_key,
                                           ttl_seconds |-> v.ttl_seconds,
                                           seen |-> {get_tenant(v.tenant_id)}])]
        /\ UNCHANGED <<redis, metrics>>
        /\ RequestStep(i, "validate_begin")

\* the lock is granted: the entry is read and the verdict returned
ValidateRead(i) ==
    LET v == Unwrap(requests[i].up)
    IN  /\ requests[i].pc = "waiting"
        /\ requests' = [requests EXCEPT
                           ![i].pc = "done",
                           ![i].resp =
                               Some(IF v.kind = "api_key"
                                    THEN validate_api_key(v.tenant_id, v.api_key)
                                    ELSE validate_ttl(v.tenant_id, v.ttl_seconds))]
        /\ UNCHANGED <<redis, metrics>>
        /\ RequestStep(i, "validate_read")

InitRegistry ==
    /\ redis = EmptyRedis
    /\ now = 0
    /\ metrics = ZeroMetrics
    /\ tenants \in {NoTenants, Registry}
    /\ default_ttl_seconds = 0
    /\ upstream = FALSE
    /\ listener = Listening
    /\ requests = NoRequests
    /\ last = InitLast
    /\ stored = EmptyRedis

NextRegistry ==
    \/ AddTenant
    \/ LoadTenants
    \/ \E i \in 1..MaxRequests : ValidateBegin(i)
    \/ \E i \in 1..MaxRequests : ValidateRead(i)

\* the registry written while validations are in flight
SpecRegistry == InitRegistry /\ [][NextRegistry]_vars

\* C40: the registry is last-writer-wins and atomic per entry.  After
\* add_tenant(c) (or a load_tenants whose last configuration for the tenant
\* is c) the tenant's entry is c, whole: validate_api_key accepts c.api_key
\* and rejects every other key, the one registered before included, and the
\* other tenants' entries are as they were; and a validation that was
\* waiting while the registry was written returns the verdict of the whole
\* configuration registered when it was called or of a whole configuration
\* submitted since, never of a mixture.
C40_RegistryAtomic ==
    [][/\ last'.op \in {"add_tenant", "load_tenants"}
          => \A id \in DOMAIN tenants \cup DOMAIN tenants' :
                 LET c == Submitted(last'.req.configs, id)
                 IN  IF c = None
                     THEN id \in DOMAIN tenants /\ id \in DOMAIN tenants'
                          /\ tenants'[id] = tenants[id]
                     ELSE /\ id \in DOMAIN tenants'
                          /\ tenants'[id] = Unwrap(c)
                          /\ \A k \in {ApiKey1, ApiKey2, WrongKey} :
                                 validate_api_key(id, k)' =
                                     IF k = Unwrap(c).api_key THEN Ok(None)
                                     ELSE BadRequest(<<"Invalid API key">>)
       /\ last'.op = "validate_read"
          => LET v == Unwrap(requests[last'.req.id].up)
                 verdict == Unwrap(requests'[last'.req.id].resp)
             IN  \E e \in v.seen :
                     IF v.kind = "api_key"
                     THEN verdict =
                              IF e = None THEN BadRequest(<<"Unknown tenant">>)
                              ELSE IF Unwrap(e).api_key = v.api_key THEN Ok(None)
                              ELSE BadRequest(<<"Invalid API key">>)
                     ELSE verdict.ok <=>
                              \/ e = None
                              \/ Unwrap(e).max_ttl_seconds = None
                              \/ Unwrap(v.ttl_seconds)
                                     <= Unwrap(Unwrap(e).max_ttl_seconds)]_vars

\* a validation of t1's first key was called while that key was registered,
\* waited while add_tenant replaced the key, and was refused
C40_Witness ==
    /\ last.op = "validate_read"
    /\ requests[last.req.id].pc = "done"
    /\ Unwrap(requests[last.req.id].up).kind = "api_key"
    /\ Unwrap(requests[last.req.id].up).api_key = ApiKey1
    /\ Some(TenantConfig(T1, ApiKey1, Some(1))) \in Unwrap(requests[last.req.id].up).seen
    /\ Some(TenantConfig(T1, ApiKey2, Some(2))) \in Unwrap(requests[last.req.id].up).seen
    /\ requests[last.req.id].resp = Some(BadRequest(<<"Invalid API key">>))
    /\ tenants[T1].api_key = ApiKey2

=============================================================================
